---- MODULE Spec2Model ----
(***************************************************************************)
(* Generation-and-normalization pipeline of the content repurposing        *)
(* engine: the four text entry points of gemini_service.py and             *)
(* groq_service.py, their JSON extraction with fence stripping, and the     *)
(* four per-platform normalizers.                                           *)
(*                                                                          *)
(* Python strings are run-length encoded: a string is a sequence of runs    *)
(* [c |-> character, n |-> count] with n >= 1 and adjacent runs of          *)
(* different characters, so that the 2200 and 280 character limits keep     *)
(* their real values.  JSON values are tagged records [t, v].  A provider   *)
(* response text is a sequence of lexical tokens: the fence ```, the tag    *)
(* json, single characters, and whole JSON documents.                       *)
(***************************************************************************)
EXTENDS Integers, Sequences, FiniteSets, TLC

VARIABLES pc, entry, content_text, primary_keyword, response, parsed_dict,
          result, exc, calls

\* the state of the generate router (routers/generate.py) and of its tables
VARIABLES rpc, endpoint, content_id, request_body, content, generated, service_calls,
          generated_posts, rows_before, status, payload, checks

service_vars == <<pc, entry, content_text, primary_keyword, response, parsed_dict,
                  result, exc, calls>>

router_vars == <<rpc, endpoint, content_id, request_body, content, generated,
                 service_calls, generated_posts, rows_before, status, payload,
                 checks>>

\* the image proxy route: the environment the process was started with, the
\* GeneratedPost id of the request, the row fetched for it, the exception no
\* handler caught, and the upstream URLs the request has fetched
VARIABLES environ, generated_post_id, post_row, unhandled, upstream_requests

serve_vars == <<environ, generated_post_id, post_row, unhandled, upstream_requests>>

\* entry-point calls running side by side, each in a thread of its own: the
\* local variables of every call
VARIABLES worker_threads

thread_vars == <<worker_threads>>

\* the AsyncSession get_db hands to a request: the rows added to it and not
\* yet committed
VARIABLES session_new

vars == <<service_vars, router_vars, serve_vars, thread_vars, session_new>>

(***************************************************************************)
(* Python str                                                              *)
(***************************************************************************)
Run(c, n) == [c |-> c, n |-> n]

Chars(c, n) == IF n <= 0 THEN <<>> ELSE <<Run(c, n)>>

\* str.isspace() of one character
isspace(c) == c \in {" ", "\n"}

RECURSIVE len(_)
len(s) == IF s = <<>> THEN 0 ELSE s[1].n + len(Tail(s))

\* s + t, keeping the encoding canonical
concat(s, t) ==
    IF s = <<>> THEN t
    ELSE IF t = <<>> THEN s
    ELSE IF s[Len(s)].c = t[1].c
         THEN SubSeq(s, 1, Len(s) - 1)
              \o <<Run(t[1].c, s[Len(s)].n + t[1].n)>>
              \o Tail(t)
         ELSE s \o t

RECURSIVE lstrip(_)
lstrip(s) ==
    IF s = <<>> THEN s
    ELSE IF isspace(s[1].c) THEN lstrip(Tail(s)) ELSE s

RECURSIVE rstrip(_)
rstrip(s) ==
    IF s = <<>> THEN s
    ELSE IF isspace(s[Len(s)].c) THEN rstrip(SubSeq(s, 1, Len(s) - 1)) ELSE s

strip(s) == rstrip(lstrip(s))

\* s[:k]
RECURSIVE slice_to(_, _)
slice_to(s, k) ==
    IF k <= 0 \/ s = <<>> THEN <<>>
    ELSE IF s[1].n <= k THEN <<s[1]>> \o slice_to(Tail(s), k - s[1].n)
    ELSE <<Run(s[1].c, k)>>

\* l[:k] of a list
list_slice_to(l, k) == SubSeq(l, 1, IF Len(l) < k THEN Len(l) ELSE k)

(***************************************************************************)
(* JSON values as Python sees them after json.loads                        *)
(***************************************************************************)
None == [t |-> "null", v |-> 0]
JStr(s) == [t |-> "str", v |-> s]
JInt(i) == [t |-> "int", v |-> i]
JList(l) == [t |-> "list", v |-> l]
JObj(f) == [t |-> "obj", v |-> f]

isinstance(x, type) == x.t = type

\* dict.get(key), None when the key is absent
get(d, key) == IF key \in DOMAIN d.v THEN d.v[key] ELSE None

\* dict.get(key, default)
get_default(d, key, default) == IF key \in DOMAIN d.v THEN d.v[key] ELSE default

\* Python truthiness: None, "", 0, [] and {} are false
truthy(x) ==
    CASE x.t = "null" -> FALSE
      [] x.t = "str"  -> x.v # <<>>
      [] x.t = "int"  -> x.v # 0
      [] x.t = "list" -> x.v # <<>>
      [] x.t = "obj"  -> DOMAIN x.v # {}

\* x or y
or(x, y) == IF truthy(x) THEN x ELSE y

Digit(i) == CASE i = 0 -> "0" [] i = 1 -> "1" [] i = 2 -> "2" [] i = 3 -> "3"
              [] i = 4 -> "4" [] i = 5 -> "5" [] i = 6 -> "6" [] i = 7 -> "7"
              [] i = 8 -> "8" [] i = 9 -> "9"

\* str(x) for the values the model feeds it: strings, None and 0..9
str(x) ==
    CASE x.t = "str"  -> x.v
      [] x.t = "null" -> <<Run("N", 1), Run("o", 1), Run("n", 1), Run("e", 1)>>
      [] x.t = "int"  -> <<Run(Digit(x.v), 1)>>

\* str.split(): the maximal runs of non-whitespace characters
RECURSIVE split_from(_, _, _)
split_from(s, cur, acc) ==
    IF s = <<>> THEN (IF cur = <<>> THEN acc ELSE Append(acc, cur))
    ELSE IF isspace(s[1].c)
         THEN split_from(Tail(s), <<>>, IF cur = <<>> THEN acc ELSE Append(acc, cur))
         ELSE split_from(Tail(s), Append(cur, s[1]), acc)

split(s) == split_from(s, <<>>, <<>>)

IsDigit(c) == c \in {"0", "1", "2", "3", "4", "5", "6", "7", "8", "9"}

DigitValue(c) == CHOOSE i \in 0..9 : Digit(i) = c

RECURSIVE int_of_digits(_, _)
int_of_digits(s, acc) ==
    IF s = <<>> THEN acc
    ELSE int_of_digits(IF s[1].n = 1 THEN Tail(s)
                       ELSE <<Run(s[1].c, s[1].n - 1)>> \o Tail(s),
                       10 * acc + DigitValue(s[1].c))

\* int(x): [raised, value]; a string parses when it is digits around blanks
int(x) ==
    CASE x.t = "int" -> [raised |-> "none", value |-> x.v]
      [] x.t = "str" ->
           LET d == strip(x.v)
           IN IF d # <<>> /\ \A i \in 1..Len(d) : IsDigit(d[i].c)
              THEN [raised |-> "none", value |-> int_of_digits(d, 0)]
              ELSE [raised |-> "ValueError", value |-> 0]
      [] OTHER -> [raised |-> "TypeError", value |-> 0]

(***************************************************************************)
(* Limits written as literals in the normalizers                           *)
(***************************************************************************)
INSTAGRAM_TEXT_LIMIT == 2200
INSTAGRAM_MAX_HASHTAGS == 5
INSTAGRAM_MAX_VARIANTS == 3
SEO_MAX_VARIANTS == 3
TWEET_LIMIT == 280
TWEET_KEEP == 277

Ellipsis == <<Run(".", 3)>>
DefaultStyle == <<Run("d", 1), Run("e", 1), Run("f", 1), Run("a", 1),
                  Run("u", 1), Run("l", 1), Run("t", 1)>>

\* what a normalizer call ends with: a returned list, or an exception
Returned(l) == [raised |-> "none", value |-> l]
Raised(e) == [raised |-> e, value |-> <<>>]

(***************************************************************************)
(* gemini_service._normalize_posts                                         *)
(***************************************************************************)

\* mutant: the content key also stands in for a body that is present but
\* empty (body = item.get("body") or item.get("content", ""))
normalize_post_item_falling_back_on_empty(item) ==
    IF ~isinstance(item, "obj") THEN <<>>
    ELSE LET body0 == get(item, "body")
             body1 == IF ~truthy(body0)
                      THEN get_default(item, "content", JStr(<<>>))
                      ELSE body0
             body  == IF truthy(body1) THEN strip(str(body1)) ELSE <<>>
             title0 == get(item, "title")
             title == IF title0 # None THEN strip(str(title0)) ELSE <<>>
         IN IF body = <<>> THEN <<>>
            ELSE <<[title |-> title, body |-> body]>>

\* mutant: the empty-body check is missing
normalize_post_item_keeps_empty(item) ==
    IF ~isinstance(item, "obj") THEN <<>>
    ELSE LET body0 == get(item, "body")
             body1 == IF body0 = None
                      THEN get_default(item, "content", JStr(<<>>))
                      ELSE body0
             body  == IF truthy(body1) THEN strip(str(body1)) ELSE <<>>
             title0 == get(item, "title")
             title == IF title0 # None THEN strip(str(title0)) ELSE <<>>
         IN <<[title |-> title, body |-> body]>>

normalize_post_item(item) ==
    IF ~isinstance(item, "obj") THEN <<>>
    ELSE LET body0 == get(item, "body")
             body1 == IF body0 = None
                      THEN get_default(item, "content", JStr(<<>>))
                      ELSE body0
             body  == IF truthy(body1) THEN strip(str(body1)) ELSE <<>>
             title0 == get(item, "title")
             title == IF title0 # None THEN strip(str(title0)) ELSE <<>>
         IN IF body = <<>> THEN <<>>
            ELSE <<[title |-> title, body |-> body]>>

RECURSIVE normalize_posts_loop(_, _)
normalize_posts_loop(posts, acc) ==
    IF posts = <<>> THEN acc
    ELSE normalize_posts_loop(Tail(posts), acc \o normalize_post_item(posts[1]))

_normalize_posts(parsed) ==
    LET posts == get(parsed, "posts")
    IN IF ~isinstance(posts, "list") THEN Returned(<<>>)
       ELSE Returned(normalize_posts_loop(posts.v, <<>>))

(***************************************************************************)
(* groq_service._normalize_threads                                         *)
(***************************************************************************)
\* mutant: the cut keeps 280 characters before the "..."
clean_tweet_cut_at_limit(t) ==
    LET s == strip(str(or(t, JStr(<<>>))))
    IN IF s = <<>> THEN <<>>
       ELSE IF len(s) > TWEET_LIMIT
            THEN <<concat(slice_to(s, TWEET_LIMIT), Ellipsis)>>
            ELSE <<s>>

clean_tweet(t) ==
    LET s == strip(str(or(t, JStr(<<>>))))
    IN IF s = <<>> THEN <<>>
       ELSE IF len(s) > TWEET_LIMIT
            THEN <<concat(slice_to(s, TWEET_KEEP), Ellipsis)>>
            ELSE <<s>>

RECURSIVE clean_tweets_loop(_, _)
clean_tweets_loop(raw_tweets, cleaned_tweets) ==
    IF raw_tweets = <<>> THEN cleaned_tweets
    ELSE clean_tweets_loop(Tail(raw_tweets),
                           cleaned_tweets \o clean_tweet(raw_tweets[1]))

normalize_thread_item(item) ==
    IF ~isinstance(item, "obj") THEN <<>>
    ELSE LET title == or(get(item, "title"), JStr(<<>>))
             title_str == strip(str(title))
             raw_tweets == or(get(item, "tweets"), JList(<<>>))
         IN IF ~isinstance(raw_tweets, "list") THEN <<>>
            ELSE LET cleaned_tweets == clean_tweets_loop(raw_tweets.v, <<>>)
                 IN IF cleaned_tweets = <<>> THEN <<>>
                    ELSE <<[title |-> title_str, tweets |-> cleaned_tweets]>>

RECURSIVE normalize_threads_loop(_, _)
normalize_threads_loop(threads, acc) ==
    IF threads = <<>> THEN acc
    ELSE normalize_threads_loop(Tail(threads),
                                acc \o normalize_thread_item(threads[1]))

_normalize_threads(parsed) ==
    LET threads == get(parsed, "threads")
    IN IF ~isinstance(threads, "list") THEN Returned(<<>>)
       ELSE Returned(normalize_threads_loop(threads.v, <<>>))

(***************************************************************************)
(* groq_service._normalize_seo_metas                                       *)
(***************************************************************************)
\* mutant: the keyword the model echoed is kept when it gave one
normalize_seo_item_echoes_keyword(item, idx, keyword) ==
    IF ~isinstance(item, "obj") THEN <<>>
    ELSE LET description == strip(str(or(get(item, "description"), JStr(<<>>))))
             echoed == get(item, "primary_keyword")
         IN IF description = <<>> THEN <<>>
            ELSE <<[id |-> idx,
                    description |-> description,
                    character_count |-> len(description),
                    primary_keyword |-> IF isinstance(echoed, "str")
                                        THEN echoed.v ELSE keyword]>>

normalize_seo_item(item, idx, keyword) ==
    IF ~isinstance(item, "obj") THEN <<>>
    ELSE LET description == strip(str(or(get(item, "description"), JStr(<<>>))))
         IN IF description = <<>> THEN <<>>
            ELSE <<[id |-> idx,
                    description |-> description,
                    character_count |-> len(description),
                    primary_keyword |-> keyword]>>

\* mutant: the id counts the emitted records, not the items of the list
RECURSIVE normalize_seo_loop_counting_emitted(_, _, _, _)
normalize_seo_loop_counting_emitted(metas, idx, keyword, acc) ==
    IF idx > Len(metas) THEN acc
    ELSE normalize_seo_loop_counting_emitted(metas, idx + 1, keyword,
             acc \o normalize_seo_item(metas[idx], Len(acc) + 1, keyword))

RECURSIVE normalize_seo_loop(_, _, _, _)
normalize_seo_loop(metas, idx, keyword, acc) ==
    IF idx > Len(metas) THEN acc
    ELSE normalize_seo_loop(metas, idx + 1, keyword,
                            acc \o normalize_seo_item(metas[idx], idx, keyword))

_normalize_seo_metas(parsed, keyword) ==
    LET metas == get(parsed, "metas")
    IN IF ~isinstance(metas, "list") THEN Returned(<<>>)
       ELSE Returned(list_slice_to(normalize_seo_loop(metas.v, 1, keyword, <<>>),
                                   SEO_MAX_VARIANTS))

(***************************************************************************)
(* gemini_service._normalize_instagram_captions                            *)
(***************************************************************************)
\* (x or "").strip(): AttributeError when x is truthy and not a string
or_empty_strip(x) ==
    LET y == or(x, JStr(<<>>))
    IN IF isinstance(y, "str") THEN Returned(strip(y.v))
       ELSE Raised("AttributeError")

RECURSIVE hashtags_of_list(_, _)
hashtags_of_list(raw_hashtags, hashtags) ==
    IF raw_hashtags = <<>> THEN hashtags
    ELSE LET h == raw_hashtags[1]
         IN hashtags_of_list(Tail(raw_hashtags),
               IF ~isinstance(h, "str") THEN hashtags
               ELSE IF strip(h.v) = <<>> THEN hashtags
               ELSE Append(hashtags, strip(h.v)))

\* mutant: the cut to 5 hashtags is missing
normalize_hashtags_uncapped(raw_hashtags) ==
    IF isinstance(raw_hashtags, "list")
    THEN hashtags_of_list(raw_hashtags.v, <<>>)
    ELSE IF isinstance(raw_hashtags, "str")
    THEN split(raw_hashtags.v)
    ELSE <<>>

normalize_hashtags(raw_hashtags) ==
    LET hashtags ==
          IF isinstance(raw_hashtags, "list")
          THEN hashtags_of_list(raw_hashtags.v, <<>>)
          ELSE IF isinstance(raw_hashtags, "str")
          THEN split(raw_hashtags.v)
          ELSE <<>>
    IN IF Len(hashtags) > INSTAGRAM_MAX_HASHTAGS
       THEN list_slice_to(hashtags, INSTAGRAM_MAX_HASHTAGS)
       ELSE hashtags

\* mutant: text[:2200] without the rstrip()
normalize_caption_item_without_rstrip(item, idx) ==
    IF ~isinstance(item, "obj") THEN Returned(<<>>)
    ELSE LET text0 == or_empty_strip(get(item, "text"))
         IN IF text0.raised # "none" THEN Raised(text0.raised)
            ELSE IF text0.value = <<>> THEN Returned(<<>>)
            ELSE LET text == IF len(text0.value) > INSTAGRAM_TEXT_LIMIT
                             THEN slice_to(text0.value, INSTAGRAM_TEXT_LIMIT)
                             ELSE text0.value
                     style0 == or_empty_strip(get(item, "style"))
                     id == int(or(get(item, "id"), JInt(idx)))
                 IN IF style0.raised # "none" THEN Raised(style0.raised)
                    ELSE IF id.raised # "none" THEN Raised(id.raised)
                    ELSE Returned(<<[id |-> id.value,
                                     style |-> IF style0.value = <<>>
                                               THEN DefaultStyle
                                               ELSE style0.value,
                                     text |-> text,
                                     hashtags |-> normalize_hashtags(get(item, "hashtags")),
                                     character_count |-> len(text)]>>)

\* one pass of the loop body: a list of zero or one record, or an exception
normalize_caption_item(item, idx) ==
    IF ~isinstance(item, "obj") THEN Returned(<<>>)
    ELSE LET text0 == or_empty_strip(get(item, "text"))
         IN IF text0.raised # "none" THEN Raised(text0.raised)
            ELSE IF text0.value = <<>> THEN Returned(<<>>)
            ELSE LET text == IF len(text0.value) > INSTAGRAM_TEXT_LIMIT
                             THEN rstrip(slice_to(text0.value, INSTAGRAM_TEXT_LIMIT))
                             ELSE text0.value
                     style0 == or_empty_strip(get(item, "style"))
                     id == int(or(get(item, "id"), JInt(idx)))
                 IN IF style0.raised # "none" THEN Raised(style0.raised)
                    ELSE IF id.raised # "none" THEN Raised(id.raised)
                    ELSE Returned(<<[id |-> id.value,
                                     style |-> IF style0.value = <<>>
                                               THEN DefaultStyle
                                               ELSE style0.value,
                                     text |-> text,
                                     hashtags |-> normalize_hashtags(get(item, "hashtags")),
                                     character_count |-> len(text)]>>)

RECURSIVE normalize_captions_loop(_, _, _)
normalize_captions_loop(captions, idx, normalized) ==
    IF idx > Len(captions) THEN Returned(normalized)
    ELSE LET one == normalize_caption_item(captions[idx], idx)
         IN IF one.raised # "none" THEN one
            ELSE normalize_captions_loop(captions, idx + 1, normalized \o one.value)

\* mutant: the final [:3] is missing
normalize_instagram_captions_uncapped(parsed) ==
    LET captions == get(parsed, "captions")
    IN IF ~isinstance(captions, "list") THEN Returned(<<>>)
       ELSE normalize_captions_loop(captions.v, 1, <<>>)

_normalize_instagram_captions(parsed) ==
    LET captions == get(parsed, "captions")
    IN IF ~isinstance(captions, "list") THEN Returned(<<>>)
       ELSE LET looped == normalize_captions_loop(captions.v, 1, <<>>)
            IN IF looped.raised # "none" THEN looped
               ELSE Returned(list_slice_to(looped.value, INSTAGRAM_MAX_VARIANTS))

(***************************************************************************)
(* Provider response text: a sequence of tokens.  FENCE is the three       *)
(* backticks, TAG the word json after an opening fence; SP, NL, BSL, and   *)
(* Tok("s"), Tok("n"), Tok("x") are single characters (blank, newline,     *)
(* backslash, letters); Doc(v) is the JSON text of the value v.            *)
(***************************************************************************)
Tok(k) == [k |-> k, v |-> None]
Doc(v) == [k |-> "doc", v |-> v]

FENCE == Tok("fence")
TAG == Tok("json")
SP == Tok(" ")
NL == Tok("\n")
BSL == Tok("\\")

\* \s of the re module, and the whitespace str.strip() removes
tok_isspace(tk) == tk.k \in {" ", "\n"}

RECURSIVE tok_lstrip(_)
tok_lstrip(text) ==
    IF text = <<>> THEN text
    ELSE IF tok_isspace(text[1]) THEN tok_lstrip(Tail(text)) ELSE text

RECURSIVE tok_rstrip(_)
tok_rstrip(text) ==
    IF text = <<>> THEN text
    ELSE IF tok_isspace(text[Len(text)])
         THEN tok_rstrip(SubSeq(text, 1, Len(text) - 1))
         ELSE text

tok_strip(text) == tok_rstrip(tok_lstrip(text))

\* json.loads(text): one JSON document, blanks allowed around it
json_loads(text) ==
    LET t == tok_strip(text)
    IN IF Len(t) = 1 /\ t[1].k = "doc" THEN Returned(t[1].v)
       ELSE Raised("JSONDecodeError")

\* the alternative a backtracking matcher reaches first has the greatest rank:
\* the groups are tried in pattern order, greedy ones longest first, the lazy
\* group shortest first
Rank(n, j, a, b, k, c) ==
    ((((j * (n + 1) + a) * 2 + b) * (n + 1) + (n - k)) * 2) + c

\* gemini_service._strip_json_fences:
\*   re.match(r"^```(?:json)?\s*\n?(.*?)\n?```\s*$", text, re.DOTALL)
\* j: the tag is taken, a: blanks of \s*, b: the \n? before the group,
\* k: length of the group, c: the \n? after it
gemini_fence_match(text, j, a, b, k, c) ==
    LET n == Len(text)
        g == 2 + j + a + b
    IN /\ n >= 1 /\ text[1] = FENCE
       /\ j = 1 => (n >= 2 /\ text[2] = TAG)
       /\ \A i \in (2 + j)..(1 + j + a) : i <= n /\ tok_isspace(text[i])
       /\ b = 1 => (2 + j + a <= n /\ text[2 + j + a] = NL)
       /\ g + k + c <= n
       /\ c = 1 => text[g + k] = NL
       /\ text[g + k + c] = FENCE
       /\ \A i \in (g + k + c + 1)..n : tok_isspace(text[i])

gemini_strip_json_fences(raw) ==
    LET text == tok_strip(raw)
        n == Len(text)
        M == {m \in (0..1) \X (0..n) \X (0..1) \X (0..n) \X (0..1) :
                gemini_fence_match(text, m[1], m[2], m[3], m[4], m[5])}
    IN IF M # {}
       THEN LET m == CHOOSE x \in M : \A y \in M :
                        Rank(n, x[1], x[2], x[3], x[4], x[5])
                          >= Rank(n, y[1], y[2], y[3], y[4], y[5])
                g == 2 + m[1] + m[2] + m[3]
            IN tok_strip(SubSeq(text, g, g + m[4] - 1))
       ELSE text

\* groq_service._strip_json_fences:
\*   re.match(r"^```(?:json)?\\s*\\n?(.*?)\\n?```\\s*$", text, re.DOTALL)
\* in a raw string \\ is the pattern of one literal backslash, so \\s* is a
\* backslash followed by any number of the letter s, and \\n? a backslash
\* followed by an optional letter n
groq_fence_match(text, j, a, b, k, c) ==
    LET n == Len(text)
        g == 4 + j + a + b
    IN /\ n >= 1 /\ text[1] = FENCE
       /\ j = 1 => (n >= 2 /\ text[2] = TAG)
       /\ 2 + j <= n /\ text[2 + j] = BSL
       /\ \A i \in (3 + j)..(2 + j + a) : i <= n /\ text[i] = Tok("s")
       /\ 3 + j + a <= n /\ text[3 + j + a] = BSL
       /\ b = 1 => (4 + j + a <= n /\ text[4 + j + a] = Tok("n"))
       /\ g + k + c + 2 <= n
       /\ text[g + k] = BSL
       /\ c = 1 => text[g + k + 1] = Tok("n")
       /\ text[g + k + 1 + c] = FENCE
       /\ text[g + k + 2 + c] = BSL
       /\ \A i \in (g + k + 3 + c)..n : text[i] = Tok("s")

groq_strip_json_fences(raw) ==
    LET text == tok_strip(raw)
        n == Len(text)
        M == {m \in (0..1) \X (0..n) \X (0..1) \X (0..n) \X (0..1) :
                groq_fence_match(text, m[1], m[2], m[3], m[4], m[5])}
    IN IF M # {}
       THEN LET m == CHOOSE x \in M : \A y \in M :
                        Rank(n, x[1], x[2], x[3], x[4], x[5])
                          >= Rank(n, y[1], y[2], y[3], y[4], y[5])
                g == 4 + m[1] + m[2] + m[3]
            IN tok_strip(SubSeq(text, g, g + m[4] - 1))
       ELSE text

(***************************************************************************)
(* Provider outcomes.  A Gemini response carries parsed (a structured      *)
(* value or None) and text (a token sequence or None); a Groq completion   *)
(* carries choices, each with a message content.  The adapter may raise.   *)
(***************************************************************************)
Text(tokens) == [t |-> "text", v |-> tokens]

GeminiResponse(parsed, text) == [kind |-> "return", parsed |-> parsed, text |-> text]
GroqCompletion(choices) == [kind |-> "return", choices |-> choices]
AdapterRaises(e) == [kind |-> "raise", error |-> e]
NoResponse == [kind |-> "none"]

Parsed(d) == [kind |-> "parsed", value |-> d]
Empty == [kind |-> "empty", value |-> None]

\* each service module calls its own _strip_json_fences
_strip_json_fences(module, raw) ==
    IF module = "gemini_service" THEN gemini_strip_json_fences(raw)
    ELSE groq_strip_json_fences(raw)

\* the text fallback shared by the four entry points (gemini_service 166-187,
\* 282-304; groq_service 246-266, 340-360): blank text is empty, json.loads is
\* retried once on the fence-stripped text, and only a dict goes on
parse_json_text(raw, module) ==
    IF raw = None THEN Empty
    ELSE IF raw.v = <<>> \/ tok_strip(raw.v) = <<>> THEN Empty
    ELSE LET text == tok_strip(raw.v)
             first == json_loads(text)
             loaded == IF first.raised = "none" THEN first
                       ELSE json_loads(_strip_json_fences(module, text))
         IN IF loaded.raised # "none" THEN Empty
            ELSE IF ~isinstance(loaded.value, "obj") THEN Empty
            ELSE Parsed(loaded.value)

\* mutant: the text is parsed whenever there is one, the structured value
\* is the fallback
gemini_extract_text_first(resp) ==
    IF resp.text # None THEN parse_json_text(resp.text, "gemini_service")
    ELSE IF resp.parsed # None THEN Parsed(resp.parsed)
    ELSE Empty

\* generate_linkedin_posts_from_text 156-187 and _parse_instagram_response:
\* the structured value wins, the text is the fallback
gemini_extract(resp) ==
    IF resp.parsed # None THEN Parsed(resp.parsed)
    ELSE parse_json_text(resp.text, "gemini_service")

\* generate_twitter_threads_from_text 242-266 and generate_seo_meta_from_text
groq_extract(completion) ==
    IF completion.choices = <<>> THEN Empty
    ELSE parse_json_text(completion.choices[1].content, "groq_service")

Entries == {"linkedin", "instagram", "twitter", "seo"}

extract(e, resp) ==
    IF e \in {"linkedin", "instagram"} THEN gemini_extract(resp)
    ELSE groq_extract(resp)

normalize(e, parsed, keyword) ==
    CASE e = "linkedin"  -> _normalize_posts(parsed)
      [] e = "instagram" -> _normalize_instagram_captions(parsed)
      [] e = "twitter"   -> _normalize_threads(parsed)
      [] e = "seo"       -> _normalize_seo_metas(parsed, keyword)

\* mutant: a text of fewer than 20 trimmed characters counts as blank
is_blank_below_minimum(text) == len(strip(text)) < 20

\* mutant: only the empty string counts as blank
is_blank_without_strip(text) == text = <<>>

\* if not content_text or not content_text.strip()
is_blank(text) == text = <<>> \/ strip(text) = <<>>

\* mutant: the failure is logged and swallowed
on_provider_error_swallowed(e) == Returned(<<>>)

\* except Exception as e: log.warning(...); raise
on_provider_error(e) == Raised(e)

(***************************************************************************)
(* Inputs: what callers pass and what the providers may answer             *)
(***************************************************************************)
\* longest list over the core items of a platform
MaxItems == 4
\* longest list that also holds the malformed items
MaxEdge == 2
\* longest list inside a fenced or padded response text
MaxFenced == 1

SeqsUpTo(S, n) == UNION {[1..k -> S] : k \in 0..n}

A(n) == Chars("a", n)
B(n) == Chars("b", n)
Blank(n) == Chars(" ", n)
S1(c) == JStr(<<Run(c, 1)>>)
Padded(c) == JStr(<<Run(" ", 1), Run(c, 1), Run(" ", 2)>>)
BlankStr == JStr(Blank(2))
EmptyStr == JStr(<<>>)

NonRecord == S1("a")

LinkedInCore ==
    { NonRecord,
      JObj([body |-> S1("b")]),
      JObj([body |-> Padded("a"), title |-> Padded("t")]),
      JObj([body |-> BlankStr, title |-> S1("t")]) }

LinkedInEdge ==
    { JObj([content |-> Padded("c")]),
      JObj([body |-> EmptyStr, content |-> S1("c")]),
      JObj([body |-> None, content |-> S1("c"), title |-> None]),
      JObj([title |-> S1("t")]),
      JObj([body |-> JInt(5)]),
      JObj([body |-> JInt(0), title |-> JInt(7)]),
      None }

TwitterCore ==
    { NonRecord,
      JObj([tweets |-> JList(<<S1("a")>>)]),
      JObj([title |-> Padded("t"),
            tweets |-> JList(<<Padded("b"), EmptyStr, S1("c")>>)]),
      JObj([title |-> S1("t"), tweets |-> JList(<<BlankStr>>)]) }

TwitterEdge ==
    { JObj([tweets |-> S1("a")]),
      JObj([tweets |-> None]),
      JObj([title |-> S1("t")]),
      JObj([tweets |-> JList(<<>>)]),
      JObj([tweets |-> JList(<<JStr(A(TWEET_LIMIT + 20))>>)]),
      JObj([tweets |-> JList(<<JStr(A(TWEET_LIMIT)), JStr(A(TWEET_LIMIT + 1))>>)]),
      JObj([tweets |-> JList(<<JStr(concat(A(TWEET_KEEP - 1),
                                    concat(Blank(2), B(10))))>>)]),
      JObj([tweets |-> JList(<<JStr(concat(Blank(1),
                                    concat(A(TWEET_LIMIT + 1), Blank(2)))),
                               JStr(concat(A(TWEET_LIMIT - 10), Blank(20)))>>)]),
      JObj([title |-> JInt(7), tweets |-> JList(<<None, JInt(5), JInt(0)>>)]) }

Hashtag(c) == JStr(<<Run("#", 1), Run(c, 1)>>)

InstagramCore ==
    { NonRecord,
      JObj([text |-> S1("a")]),
      JObj([text |-> Padded("b"), style |-> Padded("s"),
            hashtags |-> JList(<<Hashtag("x"), Hashtag("y")>>), id |-> JInt(7)]),
      JObj([text |-> BlankStr, style |-> S1("s")]) }

InstagramEdge ==
    { JObj([text |-> JStr(A(INSTAGRAM_TEXT_LIMIT + 100))]),
      JObj([text |-> JStr(concat(A(INSTAGRAM_TEXT_LIMIT - 1),
                          concat(Blank(1), B(100))))]),
      JObj([text |-> JStr(concat(A(INSTAGRAM_TEXT_LIMIT - 100),
                          concat(Blank(150), B(1))))]),
      JObj([text |-> JStr(concat(Blank(1),
                          concat(A(INSTAGRAM_TEXT_LIMIT), Blank(3))))]),
      JObj([text |-> None]),
      JObj([style |-> S1("s")]),
      JObj([text |-> JInt(5)]),
      JObj([text |-> EmptyStr, style |-> JInt(5)]),
      JObj([text |-> S1("a"), style |-> JInt(5)]),
      JObj([text |-> S1("a"), id |-> S1("x")]),
      JObj([text |-> S1("a"), hashtags |-> JInt(5), character_count |-> S1("x")]),
      JObj([text |-> S1("a"), id |-> S1("3"), style |-> None]),
      JObj([text |-> S1("a"), id |-> JInt(2)]),
      JObj([text |-> S1("a"),
            hashtags |-> JStr(<<Run("#", 1), Run("a", 1), Run(" ", 2),
                                Run("#", 1), Run("b", 1)>>)]),
      JObj([text |-> S1("a"),
            hashtags |-> JStr(<<Run("#", 1), Run("1", 1), Run(" ", 1),
                                Run("#", 1), Run("2", 1), Run("\n", 1),
                                Run("#", 1), Run("3", 1), Run(" ", 3),
                                Run("#", 1), Run("4", 1), Run(" ", 1),
                                Run("#", 1), Run("5", 1), Run(" ", 1),
                                Run("#", 1), Run("6", 1), Run(" ", 1),
                                Run("#", 1), Run("7", 1), Run(" ", 1)>>)]),
      JObj([text |-> S1("a"),
            hashtags |-> JList(<<Hashtag("1"), Hashtag("2"), Hashtag("3"),
                                 Hashtag("4"), Hashtag("5"), Hashtag("6"),
                                 Hashtag("7")>>)]),
      JObj([text |-> S1("a"),
            hashtags |-> JList(<<Hashtag("1"), Hashtag("2"), JInt(5), Hashtag("3"),
                                 BlankStr, Hashtag("4"), Hashtag("5"),
                                 Hashtag("6"), Hashtag("7")>>)]) }

SeoCore ==
    { NonRecord,
      JObj([description |-> S1("d")]),
      JObj([description |-> Padded("e"), primary_keyword |-> S1("z")]),
      JObj([description |-> BlankStr, primary_keyword |-> S1("z")]) }

SeoEdge ==
    { JObj([primary_keyword |-> S1("z")]),
      JObj([description |-> None]),
      JObj([description |-> JInt(5)]),
      JObj([description |-> JInt(0)]),
      JObj([description |-> S1("f"), id |-> JInt(9)]),
      None }

CoreItems(e) ==
    CASE e = "linkedin"  -> LinkedInCore
      [] e = "instagram" -> InstagramCore
      [] e = "twitter"   -> TwitterCore
      [] e = "seo"       -> SeoCore

EdgeItems(e) ==
    CASE e = "linkedin"  -> LinkedInEdge
      [] e = "instagram" -> InstagramEdge
      [] e = "twitter"   -> TwitterEdge
      [] e = "seo"       -> SeoEdge

\* the top-level key each normalizer reads
TopKey(e) ==
    CASE e = "linkedin"  -> "posts"
      [] e = "instagram" -> "captions"
      [] e = "twitter"   -> "threads"
      [] e = "seo"       -> "metas"

Batches(e) ==
    SeqsUpTo(CoreItems(e), MaxItems)
      \cup SeqsUpTo(CoreItems(e) \cup EdgeItems(e), MaxEdge)

WithKey(e, value) == JObj([k \in {TopKey(e)} |-> value])

\* objects whose expected key is missing or holds no list
BadObjects(e) ==
    { JObj([other |-> JList(<<JObj([body |-> S1("b")])>>)]),
      WithKey(e, None),
      WithKey(e, S1("a")),
      WithKey(e, JObj([body |-> S1("b")])) }

\* JSON documents that are no object
NonObjects == { JList(<<>>), JList(<<JObj([body |-> S1("b")])>>), S1("a"), JInt(5), None }

BatchObjects(e) == {WithKey(e, JList(b)) : b \in Batches(e)}

FencedObjects(e) ==
    {WithKey(e, JList(b)) : b \in SeqsUpTo(CoreItems(e), MaxFenced)}
      \cup BadObjects(e)

\* a document inside one pair of fences, with or without the json tag, with
\* the blanks a model may put around it
SingleFenced(doc) ==
    { open \o lead \o <<Doc(doc)>> \o trail \o <<FENCE>> \o after :
        open \in {<<FENCE>>, <<FENCE, TAG>>},
        lead \in {<<>>, <<NL>>, <<SP, NL>>},
        trail \in {<<>>, <<NL>>},
        after \in {<<>>, <<NL>>} }

\* a bare document, alone or between blanks
Unfenced(doc) == { <<Doc(doc)>>, <<NL, SP, Doc(doc), SP, NL>> }

\* other texts around a document: prose before it, an unclosed fence, a
\* doubled fence, a fence with an unknown tag, and fences followed by the
\* literal characters \s and \n
Malformed(doc) ==
    { <<Tok("x"), SP, Doc(doc)>>,
      <<FENCE, TAG, NL, Doc(doc)>>,
      <<Doc(doc), NL, FENCE>>,
      <<FENCE, SP, FENCE, NL, Doc(doc), NL, FENCE, SP, FENCE>>,
      <<FENCE, Tok("x"), NL, Doc(doc), NL, FENCE>>,
      <<FENCE, TAG, BSL, Tok("s"), BSL, Tok("n"), Doc(doc), BSL, Tok("n"),
        FENCE, BSL, Tok("s")>> }

\* texts that hold no document at all
NoDocument == { <<>>, <<SP, NL>>, <<Tok("x")>>, <<FENCE, NL, FENCE>>,
                <<FENCE, TAG, NL, Tok("x"), NL, FENCE>> }

ResponseTexts(e) ==
    UNION { SingleFenced(d) \cup Unfenced(d) \cup Malformed(d) :
              d \in FencedObjects(e) \cup NonObjects }
      \cup { <<Doc(d)>> : d \in BatchObjects(e) }
      \cup NoDocument

ProviderErrors == {"ConnectionError", "RateLimitError"}

\* structured values that come with a text: a list of one item with a body,
\* an object without the expected list, the empty object
StructuredBesideText(e) ==
    { WithKey(e, JList(<<x>>)) : x \in { z \in CoreItems(e) : z # NonRecord } }
      \cup { WithKey(e, None), JObj(<<>>) }

\* the texts that come with a structured value: none that parses, blank, and
\* another document, bare and fenced
TextsBesideStructured(e) ==
    { <<Tok("x")>>, <<SP, NL>> }
      \cup UNION { {<<Doc(d)>>} \cup SingleFenced(d) :
                     d \in { WithKey(e, JList(<<x, x>>)) :
                               x \in { z \in CoreItems(e) : z # NonRecord } } }

\* what the provider call of entry point e can end with
ProviderOutcomes(e) ==
    { AdapterRaises(err) : err \in ProviderErrors }
      \cup IF e \in {"linkedin", "instagram"}
           THEN { GeminiResponse(d, None) : d \in BatchObjects(e) \cup BadObjects(e) }
                  \cup { GeminiResponse(d, Text(t)) :
                           d \in StructuredBesideText(e), t \in TextsBesideStructured(e) }
                  \cup { GeminiResponse(None, Text(t)) : t \in ResponseTexts(e) }
                  \cup { GeminiResponse(None, None) }
           ELSE { GroqCompletion(<<[content |-> Text(t)]>>) : t \in ResponseTexts(e) }
                  \cup { GroqCompletion(<<[content |-> None]>>), GroqCompletion(<<>>) }

\* source texts: empty, blank, 19 characters, and a padded longer one
SourceTexts ==
    { <<>>, Blank(3), <<Run("\n", 1), Run(" ", 1)>>, A(19),
      concat(Blank(2), concat(A(19), Blank(1))),
      concat(Blank(1), concat(A(40), Blank(2))) }

Keywords(e) == IF e = "seo" THEN { <<Run("k", 1)>>, <<Run("z", 1)>> } ELSE { <<>> }

(***************************************************************************)
(* One entry-point call at a time, step by step                            *)
(***************************************************************************)
\* the variables of the process: what settings = Settings() read at import
BareEnvironment == [n \in {"DATABASE_URL"} |-> <<Run("u", 1)>>]

\* the most calls that run side by side
MaxThreads == 2

Threads == 1..MaxThreads

\* a thread that runs no call
IdleThread ==
    [pc |-> "Idle", entry |-> "none", content_text |-> <<>>, primary_keyword |-> <<>>,
     response |-> NoResponse, parsed_dict |-> None, result |-> <<>>, exc |-> "none",
     overlapped |-> FALSE]

\* no call and no request is under way, the generated_posts table is empty
\* the body of a request to an endpoint that reads no field of it
NoRequestBody == [primary_keyword |-> <<>>, style |-> "none", type |-> "none"]

Constructed ==
    /\ worker_threads = [t \in Threads |-> IdleThread]
    /\ pc = "Idle"
    /\ entry = "none"
    /\ content_text = <<>>
    /\ primary_keyword = <<>>
    /\ response = NoResponse
    /\ parsed_dict = None
    /\ result = <<>>
    /\ exc = "none"
    /\ calls = 0
    /\ rpc = "Idle"
    /\ endpoint = "none"
    /\ content_id = 0
    /\ request_body = NoRequestBody
    /\ content = None
    /\ generated = Returned(<<>>)
    /\ service_calls = 0
    /\ generated_posts = <<>>
    /\ rows_before = 0
    /\ status = 0
    /\ payload = <<>>
    /\ checks = <<>>
    /\ generated_post_id = 0
    /\ post_row = None
    /\ unhandled = "none"
    /\ upstream_requests = <<>>
    /\ session_new = <<>>

\* the entry points and the generate endpoints never read the environment:
\* it is the bare one
Init == Constructed /\ environ = BareEnvironment

\* the caller enters generate_*_from_text; blank text returns [] at once
Call(e, text, keyword) ==
    /\ pc = "Idle"
    /\ entry' = e
    /\ content_text' = text
    /\ primary_keyword' = keyword
    /\ pc' = IF is_blank(text) THEN "Done" ELSE "PromptBuilt"
    /\ result' = <<>>
    /\ UNCHANGED <<response, parsed_dict, exc, calls>>
    /\ UNCHANGED <<router_vars, serve_vars, thread_vars, session_new>>

\* mutant: a call that raised is attempted a second time
InvokeProviderWithRetry ==
    /\ pc = "PromptBuilt"
    /\ pc' = "ProviderInvoked"
    /\ \E outcome \in ProviderOutcomes(entry) :
         /\ response' = outcome
         /\ calls' = calls + (IF outcome.kind = "raise" THEN 2 ELSE 1)
    /\ UNCHANGED <<entry, content_text, primary_keyword, parsed_dict, result, exc>>
    /\ UNCHANGED <<router_vars, serve_vars, thread_vars, session_new>>

\* client.models.generate_content / client.chat.completions.create
InvokeProvider ==
    /\ pc = "PromptBuilt"
    /\ pc' = "ProviderInvoked"
    /\ \E outcome \in ProviderOutcomes(entry) : response' = outcome
    /\ calls' = calls + 1
    /\ UNCHANGED <<entry, content_text, primary_keyword, parsed_dict, result, exc>>
    /\ UNCHANGED <<router_vars, serve_vars, thread_vars, session_new>>

\* the except clause around the provider call
Propagate ==
    /\ pc = "ProviderInvoked"
    /\ response.kind = "raise"
    /\ LET r == on_provider_error(response.error)
       IN IF r.raised # "none"
          THEN pc' = "Failed" /\ exc' = r.raised /\ result' = result
          ELSE pc' = "Done" /\ exc' = exc /\ result' = r.value
    /\ UNCHANGED <<entry, content_text, primary_keyword, response, parsed_dict, calls>>
    /\ UNCHANGED <<router_vars, serve_vars, thread_vars, session_new>>

\* structured value or text fallback; nothing usable returns []
Extract ==
    /\ pc = "ProviderInvoked"
    /\ response.kind = "return"
    /\ LET x == extract(entry, response)
       IN IF x.kind = "empty"
          THEN pc' = "Done" /\ parsed_dict' = parsed_dict /\ result' = <<>>
          ELSE pc' = "Extracted" /\ parsed_dict' = x.value /\ result' = result
    /\ UNCHANGED <<entry, content_text, primary_keyword, response, exc, calls>>
    /\ UNCHANGED <<router_vars, serve_vars, thread_vars, session_new>>

\* the normalizer of the platform runs on the parsed dict
Normalize ==
    /\ pc = "Extracted"
    /\ LET r == normalize(entry, parsed_dict, primary_keyword)
       IN IF r.raised # "none"
          THEN pc' = "Failed" /\ exc' = r.raised /\ result' = result
          ELSE pc' = "Normalized" /\ exc' = exc /\ result' = r.value
    /\ UNCHANGED <<entry, content_text, primary_keyword, response, parsed_dict, calls>>
    /\ UNCHANGED <<router_vars, serve_vars, thread_vars, session_new>>

\* return of the normalized list
Return ==
    /\ pc = "Normalized"
    /\ pc' = "Done"
    /\ UNCHANGED <<entry, content_text, primary_keyword, response, parsed_dict,
                   result, exc, calls>>
    /\ UNCHANGED <<router_vars, serve_vars, thread_vars, session_new>>

\* the call is over; nothing of it is kept for the next one
Reset ==
    /\ pc \in {"Done", "Failed"}
    /\ pc' = "Idle"
    /\ entry' = "none"
    /\ content_text' = <<>>
    /\ primary_keyword' = <<>>
    /\ response' = NoResponse
    /\ parsed_dict' = None
    /\ result' = <<>>
    /\ exc' = "none"
    /\ calls' = 0
    /\ UNCHANGED <<router_vars, serve_vars, thread_vars, session_new>>

Next ==
    \/ \E e \in Entries, text \in SourceTexts :
         \E keyword \in Keywords(e) : Call(e, text, keyword)
    \/ InvokeProvider
    \/ Propagate
    \/ Extract
    \/ Normalize
    \/ Return
    \/ Reset

Spec == Init /\ [][Next]_vars

(***************************************************************************)
(* Properties                                                              *)
(***************************************************************************)
\* a source text that is empty or holds only whitespace
WhitespaceOnly(text) == \A i \in 1..Len(text) : text[i].c \in {" ", "\n"}

Terminal == pc \in {"Done", "Failed"}

\* the provider answered (it did not raise)
ProviderAnswered == response.kind = "return"

\* C1: a call of any of the four entry points with an empty or
\* whitespace-only source text is over at once: it has returned the empty
\* list, raised nothing, and the provider was never invoked.
C1_BlankTextReturnsEmptyWithoutProvider ==
    (entry # "none" /\ WhitespaceOnly(content_text))
      => /\ pc = "Done"
         /\ result = <<>>
         /\ exc = "none"
         /\ calls = 0
         /\ response = NoResponse

C1_Witness ==
    /\ pc = "Done"
    /\ entry = "seo"
    /\ content_text = Blank(3)
    /\ calls = 0

\* C2: when the provider call raised, the entry point ends by raising that
\* same exception: it returns no list, and it made that one call only.
C2_ProviderErrorPropagates ==
    (Terminal /\ response.kind = "raise")
      => /\ pc = "Failed"
         /\ exc = response.error
         /\ result = <<>>
         /\ calls = 1

C2_Witness ==
    /\ pc = "Failed"
    /\ entry = "twitter"
    /\ response = AdapterRaises("RateLimitError")
    /\ exc = "RateLimitError"

\* C3: a call ends in Failed only when the provider adapter raised; whenever
\* the provider returned a response, of any shape, the call does not raise.
C3_FailedOnlyWhenAdapterRaised ==
    pc = "Failed" => response.kind = "raise"

\* the primary body of an emitted record is non-empty after trimming
BodyPresent(e, rec) ==
    CASE e = "linkedin"  -> strip(rec.body) # <<>>
      [] e = "instagram" -> strip(rec.text) # <<>>
      [] e = "seo"       -> strip(rec.description) # <<>>
      [] e = "twitter"   -> /\ rec.tweets # <<>>
                            /\ \A i \in 1..Len(rec.tweets) :
                                 strip(rec.tweets[i]) # <<>>

\* the list under the expected top-level key of the parsed dict
InputItems == get(parsed_dict, TopKey(entry)).v

NormalizerReturned ==
    /\ pc \in {"Normalized", "Done"}
    /\ parsed_dict # None

NormalizerReturnedList ==
    /\ NormalizerReturned
    /\ isinstance(get(parsed_dict, TopKey(entry)), "list")

\* C4: every record of a list returned by a normalizer has a non-empty
\* primary body after trimming (for Twitter, a non-empty list of non-empty
\* tweets).
C4_EmittedBodiesNonEmpty ==
    NormalizerReturned
      => \A i \in 1..Len(result) : BodyPresent(entry, result[i])

\* a batch with a blank-bodied record between emitted ones
C4_Witness ==
    /\ pc = "Normalized"
    /\ entry = "linkedin"
    /\ NormalizerReturnedList
    /\ Len(InputItems) = 3
    /\ InputItems[2] = JObj([body |-> BlankStr, title |-> S1("t")])
    /\ Len(result) = 2

\* a value that counts as a body: a non-blank string, or a non-zero number
NonBlankValue(v) ==
    \/ v.t = "str" /\ strip(v.v) # <<>>
    \/ v.t = "int" /\ v.v # 0

TrimmedValue(v) == IF v.t = "str" THEN strip(v.v) ELSE str(v)

\* the primary body field of an input record
PrimaryBody(e, item) ==
    CASE e = "linkedin"  -> IF get(item, "body") # None THEN get(item, "body")
                            ELSE get(item, "content")
      [] e = "instagram" -> get(item, "text")
      [] e = "seo"       -> get(item, "description")
      [] e = "twitter"   -> get(item, "tweets")

\* an input item that is a record with a non-empty trimmed body
HasBody(e, item) ==
    /\ isinstance(item, "obj")
    /\ IF e = "twitter"
       THEN /\ isinstance(PrimaryBody(e, item), "list")
            /\ \E i \in 1..Len(PrimaryBody(e, item).v) :
                 NonBlankValue(PrimaryBody(e, item).v[i])
       ELSE NonBlankValue(PrimaryBody(e, item))

HasBodyNow(item) == HasBody(entry, item)

ValidItems == SelectSeq(InputItems, HasBodyNow)

Capped(e) == e \in {"instagram", "seo"}

ExpectedItems ==
    IF Capped(entry) /\ Len(ValidItems) > 3 THEN SubSeq(ValidItems, 1, 3)
    ELSE ValidItems

\* the body a valid input item is emitted with: trimmed, and cut to the
\* platform's length limit
ExpectedTweet(v) ==
    IF len(TrimmedValue(v)) > 280
    THEN concat(slice_to(TrimmedValue(v), 277), <<Run(".", 3)>>)
    ELSE TrimmedValue(v)

ExpectedBody(e, item) ==
    CASE e = "linkedin"  -> TrimmedValue(PrimaryBody(e, item))
      [] e = "seo"       -> TrimmedValue(PrimaryBody(e, item))
      [] e = "instagram" ->
           IF len(TrimmedValue(PrimaryBody(e, item))) > 2200
           THEN rstrip(slice_to(TrimmedValue(PrimaryBody(e, item)), 2200))
           ELSE TrimmedValue(PrimaryBody(e, item))
      [] e = "twitter"   ->
           LET kept == SelectSeq(PrimaryBody(e, item).v, NonBlankValue)
           IN [i \in 1..Len(kept) |-> ExpectedTweet(kept[i])]

EmittedBody(e, rec) ==
    CASE e = "linkedin"  -> rec.body
      [] e = "seo"       -> rec.description
      [] e = "instagram" -> rec.text
      [] e = "twitter"   -> rec.tweets

\* the normalizer ran on a parsed dict whose expected key holds a list, and
\* either returned or raised
NormalizerRanOnList ==
    /\ pc = "Normalized" \/ (pc = "Failed" /\ ProviderAnswered)
    /\ isinstance(get(parsed_dict, TopKey(entry)), "list")

\* C5: whenever a normalizer runs on a parsed object whose expected key
\* holds a list, it returns exactly one record per input item that is a
\* record with a non-empty trimmed body, in input order (the first 3 of them
\* for Instagram and SEO); an invalid item never costs its valid siblings.
C5_OutputIsTheValidSubsequence ==
    NormalizerRanOnList
      => /\ pc = "Normalized"
         /\ Len(result) = Len(ExpectedItems)
         /\ \A i \in 1..Len(result) :
              EmittedBody(entry, result[i]) = ExpectedBody(entry, ExpectedItems[i])

\* the same, for the runs in which the normalizer did not raise
C5_HoldsWhenNothingRaises ==
    (pc = "Normalized" /\ NormalizerRanOnList)
      => /\ Len(result) = Len(ExpectedItems)
         /\ \A i \in 1..Len(result) :
              EmittedBody(entry, result[i]) = ExpectedBody(entry, ExpectedItems[i])

\* the provider answered on the text path: no structured value came with it
TextPath ==
    /\ ProviderAnswered
    /\ entry \in {"linkedin", "instagram"} => response.parsed = None

\* the text of the answer, None when it carries none
ResponseText ==
    IF entry \in {"linkedin", "instagram"} THEN response.text
    ELSE IF response.choices = <<>> THEN None
    ELSE response.choices[1].content

DocsIn(text) == { text[i].v : i \in { j \in 1..Len(text) : text[j].k = "doc" } }

\* text is the document d inside one pair of fences, the opening one with or
\* without the json tag, with nothing but whitespace around the document
IsSingleFenced(text, d) ==
    LET t == tok_strip(text)
        n == Len(t)
    IN /\ n >= 3
       /\ t[1] = FENCE
       /\ t[n] = FENCE
       /\ \E i \in 2..(n - 1) :
            /\ t[i] = Doc(d)
            /\ \A j \in (2..(n - 1)) \ {i} :
                 \/ tok_isspace(t[j])
                 \/ j = 2 /\ j < i /\ t[j] = TAG

\* the JSON values a text stands for, bare or in one pair of fences
JsonValues(text) ==
    { d \in DocsIn(text) : tok_strip(text) = <<Doc(d)>> \/ IsSingleFenced(text, d) }

\* a text answer nothing can be made of: no text, blank text, no JSON even
\* inside fences, JSON that is no object, or an object whose expected key is
\* missing or holds no list
Unusable(e, raw) ==
    \/ raw = None
    \/ tok_strip(raw.v) = <<>>
    \/ JsonValues(raw.v) = {}
    \/ \E d \in JsonValues(raw.v) :
         \/ ~isinstance(d, "obj")
         \/ ~isinstance(get(d, TopKey(e)), "list")

\* C6: when the provider's text answer is empty or whitespace, is not valid
\* JSON even after fence stripping, is valid JSON but not an object, or is an
\* object whose expected key is missing or not a list, the entry point
\* returns the empty list and raises nothing.
C6_UnusableTextYieldsEmptyList ==
    (Terminal /\ TextPath /\ Unusable(entry, ResponseText))
      => pc = "Done" /\ result = <<>> /\ exc = "none"

\* the same on the Gemini paths alone
C6_HoldsOnGeminiPaths ==
    (Terminal /\ TextPath /\ entry \in {"linkedin", "instagram"}
       /\ Unusable(entry, ResponseText))
      => pc = "Done" /\ result = <<>> /\ exc = "none"

\* what a finished call handed back
Outcome == IF pc = "Failed" THEN Raised(exc) ELSE Returned(result)

\* what the entry point hands back for a provider answer
OutcomeOf(e, keyword, resp) ==
    IF extract(e, resp).kind = "empty" THEN Returned(<<>>)
    ELSE normalize(e, extract(e, resp).value, keyword)

\* the answer whose text is the bare document d
UnfencedAnswer(e, d) ==
    IF e \in {"linkedin", "instagram"} THEN GeminiResponse(None, Text(<<Doc(d)>>))
    ELSE GroqCompletion(<<[content |-> Text(<<Doc(d)>>)]>>)

\* C7: on the Gemini and the Groq paths alike, a JSON document wrapped in a
\* single pair of triple-backtick fences, tagged json or not, makes the
\* entry point return what it returns for the bare document.
C7_FencedParsesLikeUnfenced ==
    (Terminal /\ TextPath /\ ResponseText # None)
      => \A d \in DocsIn(ResponseText.v) :
           IsSingleFenced(ResponseText.v, d)
             => Outcome = OutcomeOf(entry, primary_keyword, UnfencedAnswer(entry, d))

\* the same on the Gemini paths alone
C7_HoldsOnGeminiPaths ==
    (Terminal /\ TextPath /\ ResponseText # None
       /\ entry \in {"linkedin", "instagram"})
      => \A d \in DocsIn(ResponseText.v) :
           IsSingleFenced(ResponseText.v, d)
             => Outcome = OutcomeOf(entry, primary_keyword, UnfencedAnswer(entry, d))

\* C8: the SEO normalizer given more than 3 valid metas returns exactly 3
\* records, the first 3 valid ones in input order, and every record it
\* returns carries the caller's primary keyword, whatever keyword the model
\* echoed.
C8_SeoKeepsFirstThreeWithCallersKeyword ==
    (entry = "seo" /\ NormalizerReturnedList)
      => /\ \A i \in 1..Len(result) : result[i].primary_keyword = primary_keyword
         /\ Len(ValidItems) > SEO_MAX_VARIANTS
              => /\ Len(result) = SEO_MAX_VARIANTS
                 /\ \A i \in 1..SEO_MAX_VARIANTS :
                      result[i].description
                        = TrimmedValue(get(ValidItems[i], "description"))

\* four valid metas came in, one of them echoing another keyword than the
\* caller's, and three records went out
C8_Witness ==
    /\ entry = "seo"
    /\ pc = "Normalized"
    /\ NormalizerReturnedList
    /\ Len(ValidItems) > SEO_MAX_VARIANTS
    /\ \E i \in 1..SEO_MAX_VARIANTS :
         /\ isinstance(get(ValidItems[i], "primary_keyword"), "str")
         /\ get(ValidItems[i], "primary_keyword").v # primary_keyword
    /\ Len(result) = SEO_MAX_VARIANTS

\* C9: the lists the Instagram and the SEO entry points return hold at most
\* 3 records; the excess is dropped from the tail, so with more than 3 valid
\* items the records returned are those of the first 3 valid items.
C9_InstagramAndSeoReturnAtMostThree ==
    (Capped(entry) /\ pc \in {"Normalized", "Done"})
      => /\ Len(result) <= 3
         /\ (NormalizerReturnedList /\ Len(ValidItems) > 3)
              => /\ Len(result) = 3
                 /\ \A i \in 1..3 :
                      EmittedBody(entry, result[i])
                        = ExpectedBody(entry, ValidItems[i])

\* four valid captions came in and three went out
C9_Witness ==
    /\ entry = "instagram"
    /\ pc = "Normalized"
    /\ NormalizerReturnedList
    /\ Len(ValidItems) > INSTAGRAM_MAX_VARIANTS
    /\ Len(result) = INSTAGRAM_MAX_VARIANTS

\* the trimmed text of the i-th valid input caption
CaptionSource(i) == TrimmedValue(get(ValidItems[i], "text"))

\* the character at 1-based position k of a string
char_at(s, k) ==
    IF k <= s[1].n THEN s[1].c
    ELSE LET rest == slice_to(s, k) IN rest[Len(rest)].c

\* C10 as stated: a caption text longer than 2200 characters comes out with
\* a length of exactly 2200 and a character_count of 2200, and
\* character_count is always the length of the emitted text.
C10_LongCaptionComesOutAtExactly2200 ==
    (entry = "instagram" /\ NormalizerReturnedList)
      => \A i \in 1..Len(result) :
           /\ result[i].character_count = len(result[i].text)
           /\ len(CaptionSource(i)) > INSTAGRAM_TEXT_LIMIT
                => /\ len(result[i].text) = INSTAGRAM_TEXT_LIMIT
                   /\ result[i].character_count = INSTAGRAM_TEXT_LIMIT

\* C10: a caption whose trimmed text is longer than 2200 characters comes
\* out as its first 2200 characters with the trailing whitespace removed: at
\* most 2200 characters, exactly 2200 when the 2200th character is not
\* whitespace, and character_count is always the length of the emitted text.
C10_LongCaptionIsCutAt2200AndTrimmed ==
    (entry = "instagram" /\ NormalizerReturnedList)
      => \A i \in 1..Len(result) :
           /\ result[i].character_count = len(result[i].text)
           /\ len(CaptionSource(i)) > INSTAGRAM_TEXT_LIMIT
                => /\ result[i].text
                        = rstrip(slice_to(CaptionSource(i), INSTAGRAM_TEXT_LIMIT))
                   /\ len(result[i].text) <= INSTAGRAM_TEXT_LIMIT
                   /\ ~isspace(char_at(CaptionSource(i), INSTAGRAM_TEXT_LIMIT))
                        => len(result[i].text) = INSTAGRAM_TEXT_LIMIT

\* a caption longer than 2200 characters came out shorter than 2200, with
\* its character_count following
C10_Witness ==
    /\ entry = "instagram"
    /\ pc = "Normalized"
    /\ NormalizerReturnedList
    /\ \E i \in 1..Len(result) :
         /\ len(CaptionSource(i)) > INSTAGRAM_TEXT_LIMIT
         /\ len(result[i].text) < INSTAGRAM_TEXT_LIMIT
         /\ result[i].character_count = len(result[i].text)

\* a list element that is a hashtag: a non-blank string
IsHashtag(h) == h.t = "str" /\ strip(h.v) # <<>>

\* the hashtags a caption was given, in order: the non-blank strings of a
\* list, or the words of a whitespace-delimited string
GivenHashtags(raw) ==
    IF isinstance(raw, "list")
    THEN LET kept == SelectSeq(raw.v, IsHashtag)
         IN [i \in 1..Len(kept) |-> strip(kept[i].v)]
    ELSE IF isinstance(raw, "str") THEN split(raw.v)
    ELSE <<>>

\* the hashtags field of the i-th valid input caption
HashtagsSource(i) == get(ValidItems[i], "hashtags")

\* C11: a caption given more than 5 hashtags (e.g. 7) is emitted with exactly
\* the first 5 of them in their original order, and every emitted hashtags
\* list has at most 5 entries, whether the input was a list of strings or a
\* whitespace-delimited string.
C11_HashtagsAreCutToTheFirstFive ==
    (entry = "instagram" /\ NormalizerReturnedList)
      => \A i \in 1..Len(result) :
           /\ Len(result[i].hashtags) <= INSTAGRAM_MAX_HASHTAGS
           /\ Len(GivenHashtags(HashtagsSource(i))) > INSTAGRAM_MAX_HASHTAGS
                => result[i].hashtags
                     = SubSeq(GivenHashtags(HashtagsSource(i)),
                              1, INSTAGRAM_MAX_HASHTAGS)

\* one batch held a caption with 7 hashtags in a list and one with 7 in a
\* string, and both came out with 5
C11_Witness ==
    /\ entry = "instagram"
    /\ pc = "Normalized"
    /\ NormalizerReturnedList
    /\ \E i, j \in 1..Len(result) :
         /\ isinstance(HashtagsSource(i), "list")
         /\ Len(HashtagsSource(i).v) = 7
         /\ Len(GivenHashtags(HashtagsSource(i))) = 7
         /\ Len(result[i].hashtags) = INSTAGRAM_MAX_HASHTAGS
         /\ isinstance(HashtagsSource(j), "str")
         /\ Len(GivenHashtags(HashtagsSource(j))) = 7
         /\ Len(result[j].hashtags) = INSTAGRAM_MAX_HASHTAGS

\* the tweets of the i-th valid input thread that are not blank
TweetsSource(i) == SelectSeq(get(ValidItems[i], "tweets").v, NonBlankValue)

\* C12: a tweet longer than 280 characters (e.g. 300) is emitted with a
\* length of exactly 280: its first 277 characters followed by "..."; a
\* tweet of at most 280 characters is emitted unchanged after trimming; so
\* every emitted tweet has at most 280 characters.
C12_LongTweetsEndInEllipsisAt280 ==
    (entry = "twitter" /\ NormalizerReturnedList)
      => \A i \in 1..Len(result) :
           /\ Len(result[i].tweets) = Len(TweetsSource(i))
           /\ \A j \in 1..Len(result[i].tweets) :
                /\ len(result[i].tweets[j]) <= TWEET_LIMIT
                /\ len(TrimmedValue(TweetsSource(i)[j])) > TWEET_LIMIT
                     => /\ len(result[i].tweets[j]) = TWEET_LIMIT
                        /\ result[i].tweets[j]
                             = concat(slice_to(TrimmedValue(TweetsSource(i)[j]),
                                               TWEET_KEEP),
                                      <<Run(".", 3)>>)
                /\ len(TrimmedValue(TweetsSource(i)[j])) <= TWEET_LIMIT
                     => result[i].tweets[j] = TrimmedValue(TweetsSource(i)[j])

\* a tweet of 300 characters came out with 280, and one of exactly 280 came
\* out as it was
C12_Witness ==
    /\ entry = "twitter"
    /\ pc = "Normalized"
    /\ NormalizerReturnedList
    /\ \E i \in 1..Len(result) : \E j \in 1..Len(result[i].tweets) :
         /\ len(TrimmedValue(TweetsSource(i)[j])) = 300
         /\ len(result[i].tweets[j]) = TWEET_LIMIT
    /\ \E i \in 1..Len(result) : \E j \in 1..Len(result[i].tweets) :
         /\ len(TrimmedValue(TweetsSource(i)[j])) = TWEET_LIMIT
         /\ result[i].tweets[j] = TrimmedValue(TweetsSource(i)[j])

IsValidPosition(k) == HasBody(entry, InputItems[k])

\* the 1-based positions, in the provider's list, of the valid items
ValidPositions ==
    SelectSeq([k \in 1..Len(InputItems) |-> k], IsValidPosition)

\* the provider gave the item an id the normalizer reads
IdSupplied(item) == entry = "instagram" /\ truthy(get(item, "id"))

\* C13 as stated: every emitted variant carries an id, and when the provider
\* supplied none the k emitted variants are numbered 1, 2, ..., k in source
\* order.
C13_EmittedVariantsAreNumberedFromOne ==
    NormalizerReturnedList
      => \A i \in 1..Len(result) :
           /\ "id" \in DOMAIN result[i]
           /\ ~IdSupplied(ValidItems[i]) => result[i].id = i

\* the same for the Instagram and SEO records, which do carry an id
C13_CaptionsAndMetasAreNumberedFromOne ==
    (Capped(entry) /\ NormalizerReturnedList)
      => \A i \in 1..Len(result) :
           ~IdSupplied(ValidItems[i]) => result[i].id = i

\* C13: every emitted Instagram or SEO variant carries an id; when the
\* provider supplied none it is the 1-based position of the variant's item
\* in the provider's list, dropped items counted, so the ids rise in source
\* order and are 1, 2, ..., k only when no item before them was dropped;
\* LinkedIn and Twitter variants carry no id.
C13_IdIsThePositionInTheProvidersList ==
    NormalizerReturnedList
      => \A i \in 1..Len(result) :
           IF Capped(entry)
           THEN /\ "id" \in DOMAIN result[i]
                /\ ~IdSupplied(ValidItems[i]) => result[i].id = ValidPositions[i]
                /\ (\A j \in 1..ValidPositions[i] : IsValidPosition(j))
                     => (~IdSupplied(ValidItems[i]) => result[i].id = i)
           ELSE "id" \notin DOMAIN result[i]

\* a dropped item came first, and the first emitted variant got the id 2
C13_Witness ==
    /\ Capped(entry)
    /\ pc = "Normalized"
    /\ NormalizerReturnedList
    /\ Len(result) >= 1
    /\ ~IsValidPosition(1)
    /\ IsValidPosition(2)
    /\ ~IdSupplied(ValidItems[1])
    /\ result[1].id = 2

\* a field the provider left out or set to null
Absent(item, key) == get(item, key) = None

\* the optional fields of an emitted record that the item left out, or gave
\* as no list and no string in the case of the hashtags, hold their defaults
DefaultsTaken(e, item, rec) ==
    CASE e \in {"linkedin", "twitter"} ->
           Absent(item, "title") => rec.title = <<>>
      [] e = "instagram" ->
           /\ Absent(item, "style") => rec.style = DefaultStyle
           /\ get(item, "hashtags").t \notin {"list", "str"} => rec.hashtags = <<>>
           /\ rec.character_count = len(rec.text)
      [] e = "seo" -> rec.character_count = len(rec.description)

\* C14: for every normalizer, an item that is a record with a non-empty body
\* is emitted whatever its optional subfields (title, style, hashtags, id,
\* character_count) look like: missing or malformed ones take their
\* defaults, and they never get the item rejected or make the normalizer
\* raise.
C14_MalformedOptionalFieldsNeverCostAnItem ==
    NormalizerRanOnList
      => /\ pc = "Normalized"
         /\ Len(result) = Len(ExpectedItems)
         /\ \A i \in 1..Len(result) :
              DefaultsTaken(entry, ExpectedItems[i], result[i])

\* the same, for the runs in which the normalizer did not raise
C14_HoldsWhenNothingRaises ==
    (pc = "Normalized" /\ NormalizerRanOnList)
      => /\ Len(result) = Len(ExpectedItems)
         /\ \A i \in 1..Len(result) :
              DefaultsTaken(entry, ExpectedItems[i], result[i])

\* the entry point was called with a source text of 19 trimmed characters
NineteenCharacters == entry # "none" /\ len(strip(content_text)) = 19

\* C15 as stated: an entry point called with a source text of 19 trimmed
\* characters returns the empty list and never invokes the provider.
C15_NineteenCharactersReturnEmptyWithoutProvider ==
    NineteenCharacters => pc = "Done" /\ result = <<>> /\ calls = 0

\* C15: an entry point called with a source text of 19 trimmed characters
\* builds the prompt and invokes the provider exactly once, and hands back
\* what the answer yields; only an empty or whitespace-only text returns
\* without the provider.
C15_NineteenCharactersReachTheProvider ==
    NineteenCharacters
      => /\ pc = "PromptBuilt" => calls = 0
         /\ pc # "PromptBuilt" => calls = 1
         /\ pc # "Idle"

\* a call with 19 characters, padded with blanks, returned a variant
C15_Witness ==
    /\ NineteenCharacters
    /\ len(content_text) > 19
    /\ pc = "Done"
    /\ calls = 1
    /\ result # <<>>

(***************************************************************************)
(* routers/generate.py: the five generate endpoints.  Each handler is a    *)
(* chain of steps: fetch the content row (404), check the length of its    *)
(* trimmed text (400), call the generation service (502 when it raises,    *)
(* 500 when it returns nothing), persist one GeneratedPost per valid item  *)
(* (500 when none is valid), answer 201.  created_at is left out.          *)
(***************************************************************************)
TextEndpoints == Entries

Endpoints == TextEndpoints \cup {"image"}

\* longest provider list of arbitrary items behind a service call of the router
MaxServed == 1
\* a request is taken while the generated_posts table holds fewer rows
MaxRows == 2

\* the content table: a long text of two words, 19 characters between blanks,
\* exactly 20 characters, and 10 blanks (the content API takes 10 characters
\* or more)
ContentTable ==
    <<[id |-> 1,
       original_text |-> concat(Blank(1), concat(A(36), concat(Blank(1),
                                  concat(A(3), Blank(2))))),
       title |-> <<Run("T", 1)>>],
      [id |-> 2, original_text |-> concat(Blank(2), concat(A(19), Blank(1))),
       title |-> <<>>],
      [id |-> 3, original_text |-> A(20), title |-> <<>>],
      [id |-> 4, original_text |-> Blank(10), title |-> <<>>]>>

\* the ids a request may name: the stored ones and one that is not stored
ContentIds == 1..(Len(ContentTable) + 1)

\* mutant: a missing id is served with the first row of the table
fetch_content_or_first(id) ==
    IF \E i \in 1..Len(ContentTable) : ContentTable[i].id = id
    THEN ContentTable[CHOOSE i \in 1..Len(ContentTable) : ContentTable[i].id = id]
    ELSE ContentTable[1]

\* select(Content).where(Content.id == content_id) ... scalar_one_or_none()
fetch_content(id) ==
    IF \E i \in 1..Len(ContentTable) : ContentTable[i].id = id
    THEN ContentTable[CHOOSE i \in 1..Len(ContentTable) : ContentTable[i].id = id]
    ELSE None

\* text = (content.original_text or "").strip()
content_text_of(row) == strip(row.original_text)

MIN_CONTENT_LENGTH == 20

\* mutant: 19 characters are enough
too_short_below_19(text) == len(text) < 19

\* if len(text) < 20
too_short(text) == len(text) < MIN_CONTENT_LENGTH

\* generate_*_from_text as a function of the provider's outcome
text_service(e, text, keyword, outcome) ==
    IF is_blank(text) THEN Returned(<<>>)
    ELSE IF outcome.kind = "raise" THEN on_provider_error(outcome.error)
    ELSE OutcomeOf(e, keyword, outcome)

\* the provider lists behind the router's service calls
ServedBatches(e) ==
    SeqsUpTo(CoreItems(e), MaxServed)
      \cup { <<x>> : x \in EdgeItems(e) }
      \cup { <<x, y>> : x, y \in { z \in CoreItems(e) : HasBody(e, z) } }

ServedOutcomes(e) ==
    { AdapterRaises(err) : err \in ProviderErrors }
      \cup IF e \in {"linkedin", "instagram"}
           THEN { GeminiResponse(WithKey(e, JList(b)), None) : b \in ServedBatches(e) }
                  \cup { GeminiResponse(None, None) }
           ELSE { GroqCompletion(<<[content |-> Text(<<Doc(WithKey(e, JList(b)))>>)]>>) :
                    b \in ServedBatches(e) }
                  \cup { GroqCompletion(<<>>) }

Str1(c) == <<Run(c, 1)>>

\* what the substituted services of tests/test_generate_api.py hand back: a
\* RuntimeError, and lists whose items have blank or padded bodies
SubstituteResults(e) ==
    { Raised("RuntimeError") } \cup
    CASE e = "linkedin" ->
           { Returned(<<[title |-> Str1("t"), body |-> Blank(2)]>>),
             Returned(<<[title |-> Blank(1), body |-> <<>>],
                        [title |-> Blank(1), body |-> concat(Blank(1), Str1("b"))]>>) }
      [] e = "twitter" ->
           { Returned(<<[title |-> Str1("t"), tweets |-> <<Blank(2), <<>> >>]>>),
             Returned(<<[title |-> <<>>, tweets |-> <<>>],
                        [title |-> Str1("t"),
                         tweets |-> <<concat(Str1("b"), Blank(1)), Blank(1), Str1("c")>>]>>) }
      [] e = "instagram" ->
           { Returned(<<[id |-> 1, style |-> DefaultStyle, text |-> <<>>,
                         hashtags |-> <<>>, character_count |-> 0]>>) }
      [] e = "seo" ->
           { Returned(<<[id |-> 1, description |-> Blank(2),
                         character_count |-> 2, primary_keyword |-> Str1("k")]>>),
             Returned(<<[id |-> 1, description |-> <<>>,
                         character_count |-> 0, primary_keyword |-> <<>>],
                        [id |-> 2, description |-> concat(Str1("d"), Blank(1)),
                         character_count |-> 2, primary_keyword |-> <<>>]>>) }

\* every value the call in the handler's try block can come back with
ServiceResults(e, text, keyword) ==
    { text_service(e, text, keyword, o) : o \in ServedOutcomes(e) }
      \cup SubstituteResults(e)

\* "\n\n".join(tweets)
RECURSIVE join(_)
join(tweets) ==
    IF tweets = <<>> THEN <<>>
    ELSE IF Len(tweets) = 1 THEN tweets[1]
    ELSE concat(tweets[1], concat(<<Run("\n", 2)>>, join(Tail(tweets))))

NotBlank(t) == strip(t) # <<>>

\* the GeneratedPost a handler builds for one item of the service's list: a
\* list of zero or one row, the id still to come
row_of(e, item, cid, rbody) ==
    CASE e = "linkedin" ->
           IF strip(item.body) = <<>> THEN <<>>
           ELSE <<[content_id |-> cid, platform |-> "linkedin",
                   generated_text |-> strip(item.body),
                   post_metadata |->
                     IF strip(item.title) # <<>>
                     THEN [title |-> JStr(strip(item.title))]
                     ELSE [title |-> None]]>>
      [] e = "twitter" ->
           IF SelectSeq(item.tweets, NotBlank) = <<>> THEN <<>>
           ELSE <<[content_id |-> cid, platform |-> "twitter",
                   generated_text |-> join(SelectSeq(item.tweets, NotBlank)),
                   post_metadata |->
                     [title |-> strip(item.title),
                      tweets |-> SelectSeq(item.tweets, NotBlank)]]>>
      [] e = "instagram" ->
           <<[content_id |-> cid, platform |-> "instagram",
              generated_text |-> item.text,
              post_metadata |->
                [style |-> item.style, text |-> item.text,
                 hashtags |-> item.hashtags,
                 character_count |-> item.character_count]]>>
      [] e = "seo" ->
           IF strip(item.description) = <<>> THEN <<>>
           ELSE <<[content_id |-> cid, platform |-> "seo",
                   generated_text |-> strip(item.description),
                   post_metadata |->
                     [primary_keyword |->
                        IF item.primary_keyword # <<>> THEN item.primary_keyword
                        ELSE rbody.primary_keyword,
                      character_count |-> item.character_count]]>>

RECURSIVE rows_of(_, _, _, _)
rows_of(e, items, cid, rbody) ==
    IF items = <<>> THEN <<>>
    ELSE row_of(e, items[1], cid, rbody) \o rows_of(e, Tail(items), cid, rbody)

\* mutant: every row of a commit gets the same id
committed_with_one_id(table, rows) ==
    [i \in 1..Len(rows) |->
       [id |-> Len(table) + 1,
        content_id |-> rows[i].content_id,
        platform |-> rows[i].platform,
        generated_text |-> rows[i].generated_text,
        post_metadata |-> rows[i].post_metadata]]

\* db.commit() and db.refresh(row): the rows get the next ids of the table
committed(table, rows) ==
    [i \in 1..Len(rows) |->
       [id |-> Len(table) + i,
        content_id |-> rows[i].content_id,
        platform |-> rows[i].platform,
        generated_text |-> rows[i].generated_text,
        post_metadata |-> rows[i].post_metadata]]

\* the response object built from a persisted row
response_item(e, row) ==
    CASE e = "linkedin" ->
           [id |-> row.id, content_id |-> row.content_id,
            title |-> row.post_metadata.title, body |-> row.generated_text]
      [] e = "twitter" ->
           [id |-> row.id, content_id |-> row.content_id,
            title |-> row.post_metadata.title,
            tweets |-> row.post_metadata.tweets]
      [] e = "instagram" ->
           [id |-> row.id, style |-> row.post_metadata.style,
            text |-> IF row.generated_text # <<>> THEN row.generated_text
                     ELSE row.post_metadata.text,
            hashtags |-> row.post_metadata.hashtags,
            character_count |-> row.post_metadata.character_count]
      [] e = "seo" ->
           [id |-> row.id, description |-> row.generated_text,
            character_count |-> row.post_metadata.character_count,
            primary_keyword |-> row.post_metadata.primary_keyword]

(***************************************************************************)
(* pollinations_service.py: the image prompt, the upstream URL and the     *)
(* image spec.  The fixed phrases of the prompt are kept by their length   *)
(* and their final blank; none of them begins or ends with whitespace      *)
(* otherwise, and all of them end before the 250th character.              *)
(***************************************************************************)
\* "instagram post, ... centered subject. " and "social media share image,
\* ... LinkedIn cover. "
platform_hint(platform) ==
    IF platform = "instagram" THEN concat(Chars("i", 72), Blank(1))
    ELSE concat(Chars("s", 82), Blank(1))

\* style_map.get(style, "modern illustration, clear focal point, no text")
style_description(style) ==
    CASE style = "minimal_gradient"    -> Chars("m", 84)
      [] style = "photo_realistic"     -> Chars("p", 59)
      [] style = "tech_dark"           -> Chars("f", 67)
      [] style = "pastel_illustration" -> Chars("q", 65)
      [] OTHER                         -> Chars("d", 47)

\* ". " and "Do not include any words or letters in the image. "
NoWords == <<Run(".", 1), Run(" ", 1), Run("n", 48), Run(".", 1), Run(" ", 1)>>

\* "Topic: "
Topic == <<Run("T", 1), Run("o", 1), Run("p", 1), Run("i", 1), Run("c", 1),
           Run(":", 1), Run(" ", 1)>>

\* ' '.join(base_parts)
RECURSIVE join_blank(_)
join_blank(parts) ==
    IF parts = <<>> THEN <<>>
    ELSE IF Len(parts) = 1 THEN parts[1]
    ELSE concat(parts[1], concat(Blank(1), join_blank(Tail(parts))))

\* build_image_prompt(title, summary, platform, style)
build_image_prompt(title, summary, platform, style) ==
    LET base_parts ==
          (IF title # <<>>
           THEN <<concat(Topic, concat(strip(title), <<Run(".", 1), Run(" ", 1)>>))>>
           ELSE <<>>) \o <<strip(summary)>>
    IN concat(platform_hint(platform),
              concat(style_description(style),
                     concat(NoWords, join_blank(base_parts))))

\* urllib.parse.quote(c, safe=""): letters, digits and "_.-~" stay, every
\* other character becomes its percent escape
quote_char(c) ==
    CASE c = " "  -> "%20"
      [] c = "\n" -> "%0A"
      [] c = ":"  -> "%3A"
      [] OTHER    -> c

quote(s) == [i \in 1..Len(s) |-> Run(quote_char(s[i].c), s[i].n)]

\* build_pollinations_image_url: the quoted prompt in the path, then the
\* query parameters in their order; seed is a list of zero or one integer
build_pollinations_image_url(prompt, width, height, model, seed) ==
    [path |-> quote(prompt),
     query |-> <<[k |-> "width", v |-> width], [k |-> "height", v |-> height],
                 [k |-> "model", v |-> model], [k |-> "safe", v |-> "true"]>>
               \o [i \in 1..Len(seed) |-> [k |-> "seed", v |-> seed[i]]]]

\* the decimal digits of a natural number, as f"{width}" writes them
RECURSIVE format_int(_)
format_int(n) ==
    IF n < 10 THEN <<Run(Digit(n), 1)>>
    ELSE concat(format_int(n \div 10), <<Run(Digit(n % 10), 1)>>)

PROMPT_SHORT_LIMIT == 250
SUMMARY_LIMIT == 400

\* the values random.randint(1, 999_999_999) may draw: both ends
Seeds == {1, 999999999}

\* mutant: the short prompt keeps one character less
generate_image_spec_with_shorter_prompt(row, style, requested_type, seed) ==
    LET instagram == requested_type = "instagram"
        width == IF instagram THEN 1080 ELSE 1200
        height == IF instagram THEN 1080 ELSE 630
        raw_text == strip(row.original_text)
        full_prompt == build_image_prompt(row.title, slice_to(raw_text, SUMMARY_LIMIT),
                                          IF instagram THEN "instagram" ELSE "thumbnail",
                                          style)
        prompt_short == slice_to(full_prompt, PROMPT_SHORT_LIMIT - 1)
    IN [type |-> IF instagram THEN "image_instagram" ELSE "image_cover",
        upstream_url |-> build_pollinations_image_url(prompt_short, width, height,
                                                      "flux", <<seed>>),
        width |-> width, height |-> height, style |-> style,
        prompt |-> full_prompt, prompt_short |-> prompt_short,
        model |-> "flux", seed |-> seed,
        aspect_ratio |-> concat(format_int(width),
                                concat(<<Run(":", 1)>>, format_int(height)))]

\* generate_image_spec_for_content(content, style=..., requested_type=...)
\* with the seed it draws
generate_image_spec_for_content(row, style, requested_type, seed) ==
    LET instagram == requested_type = "instagram"
        width == IF instagram THEN 1080 ELSE 1200
        height == IF instagram THEN 1080 ELSE 630
        raw_text == strip(row.original_text)
        full_prompt == build_image_prompt(row.title, slice_to(raw_text, SUMMARY_LIMIT),
                                          IF instagram THEN "instagram" ELSE "thumbnail",
                                          style)
        prompt_short == slice_to(full_prompt, PROMPT_SHORT_LIMIT)
    IN [type |-> IF instagram THEN "image_instagram" ELSE "image_cover",
        upstream_url |-> build_pollinations_image_url(prompt_short, width, height,
                                                      "flux", <<seed>>),
        width |-> width, height |-> height, style |-> style,
        prompt |-> full_prompt, prompt_short |-> prompt_short,
        model |-> "flux", seed |-> seed,
        aspect_ratio |-> concat(format_int(width),
                                concat(<<Run(":", 1)>>, format_int(height)))]

\* the GeneratedPost of the image endpoint: the prompt is the text, the spec
\* the metadata
image_row(spec, cid) ==
    [content_id |-> cid,
     platform |-> IF spec.type = "image_instagram" THEN "instagram" ELSE "thumbnail",
     generated_text |-> spec.prompt,
     post_metadata |-> spec]

\* the image of the response; image_url is the proxy route of the row's id
image_response(row) ==
    [id |-> row.id, type |-> row.post_metadata.type,
     image_url |-> row.id,
     width |-> row.post_metadata.width, height |-> row.post_metadata.height,
     style |-> row.post_metadata.style, prompt |-> row.post_metadata.prompt]

\* the request bodies: the SEO endpoint reads primary_keyword, the image
\* endpoint style and type
RequestBodies(e) ==
    CASE e = "seo" ->
           { [NoRequestBody EXCEPT !.primary_keyword = Str1("k")] }
      [] e = "image" ->
           { [primary_keyword |-> <<>>, style |-> st, type |-> t] :
               st \in {"tech_dark", "hand_drawn"}, t \in {"cover", "instagram"} }
      [] OTHER ->
           { NoRequestBody }

\* mutant: no result of the service counts as a failure
service_failed_never(r) == FALSE

\* the try block was left through `except Exception`
service_failed(r) == r.raised # "none"

\* mutant: the empty list passes
nothing_usable_never(items) == FALSE

\* if not generated
nothing_usable(items) == items = <<>>

\* if not post_rows / thread_rows / meta_rows; the Instagram handler has no
\* such check
no_rows(e, rows) == e \in {"linkedin", "twitter", "seo"} /\ rows = <<>>

\* a request arrives at POST /api/generate/<endpoint>/<content_id>
Request(e, id, rbody) ==
    /\ rpc = "Idle"
    /\ Len(generated_posts) < MaxRows
    /\ rpc' = "Received"
    /\ endpoint' = e
    /\ content_id' = id
    /\ request_body' = rbody
    /\ rows_before' = Len(generated_posts)
    /\ UNCHANGED <<content, generated, service_calls, generated_posts, status,
                   payload, checks>>
    /\ UNCHANGED <<service_vars, serve_vars, thread_vars, session_new>>

\* 1) fetch the content row; 404 if there is none
FetchContent ==
    /\ rpc = "Received"
    /\ checks' = Append(checks, "exists")
    /\ content' = fetch_content(content_id)
    /\ IF fetch_content(content_id) = None
       THEN rpc' = "Answered" /\ status' = 404
       ELSE rpc' = "Fetched" /\ status' = status
    /\ UNCHANGED <<endpoint, content_id, request_body, generated, service_calls,
                   generated_posts, rows_before, payload>>
    /\ UNCHANGED <<service_vars, serve_vars, thread_vars, session_new>>

\* 2) the trimmed text must have 20 characters; 400 otherwise
CheckLength ==
    /\ rpc = "Fetched"
    /\ checks' = Append(checks, "length")
    /\ IF too_short(content_text_of(content))
       THEN rpc' = "Answered" /\ status' = 400
       ELSE rpc' = "Checked" /\ status' = status
    /\ UNCHANGED <<endpoint, content_id, request_body, content, generated,
                   service_calls, generated_posts, rows_before, payload>>
    /\ UNCHANGED <<service_vars, serve_vars, thread_vars, session_new>>

\* 3) the call of generate_*_from_text inside the try block
CallService ==
    /\ rpc = "Checked"
    /\ endpoint \in TextEndpoints
    /\ \E r \in ServiceResults(endpoint, content_text_of(content),
                               request_body.primary_keyword) :
         generated' = r
    /\ service_calls' = service_calls + 1
    /\ rpc' = "Called"
    /\ UNCHANGED <<endpoint, content_id, request_body, content, generated_posts,
                   rows_before, status, payload, checks>>
    /\ UNCHANGED <<service_vars, serve_vars, thread_vars, session_new>>

\* the except clause: any exception of the service is a 502
MapFailure ==
    /\ rpc = "Called"
    /\ service_failed(generated)
    /\ rpc' = "Answered"
    /\ status' = 502
    /\ UNCHANGED <<endpoint, content_id, request_body, content, generated,
                   service_calls, generated_posts, rows_before, payload, checks>>
    /\ UNCHANGED <<service_vars, serve_vars, thread_vars, session_new>>

\* if not generated: 500
RejectEmpty ==
    /\ rpc = "Called"
    /\ ~service_failed(generated)
    /\ nothing_usable(generated.value)
    /\ rpc' = "Answered"
    /\ status' = 500
    /\ UNCHANGED <<endpoint, content_id, request_body, content, generated,
                   service_calls, generated_posts, rows_before, payload, checks>>
    /\ UNCHANGED <<service_vars, serve_vars, thread_vars, session_new>>

\* 4) db.add of one row per valid item: the rows wait in the session; 500 if
\* there is none
AddRows ==
    /\ rpc = "Called"
    /\ ~service_failed(generated)
    /\ ~nothing_usable(generated.value)
    /\ LET rows == rows_of(endpoint, generated.value, content.id, request_body)
       IN IF no_rows(endpoint, rows)
          THEN /\ status' = 500
               /\ rpc' = "Answered"
               /\ session_new' = session_new
          ELSE /\ status' = status
               /\ rpc' = "Added"
               /\ session_new' = session_new \o rows
    /\ UNCHANGED <<endpoint, content_id, request_body, content, generated,
                   service_calls, generated_posts, rows_before, payload, checks>>
    /\ UNCHANGED <<service_vars, serve_vars, thread_vars>>

\* the image endpoint: the spec is built and its one row added to the session
GenerateImage ==
    /\ rpc = "Checked"
    /\ endpoint = "image"
    /\ \E seed \in Seeds :
         LET spec == generate_image_spec_for_content(content, request_body.style,
                                                     request_body.type, seed)
         IN session_new' = session_new \o <<image_row(spec, content.id)>>
    /\ service_calls' = service_calls + 1
    /\ rpc' = "Added"
    /\ UNCHANGED <<endpoint, content_id, request_body, content, generated,
                   generated_posts, rows_before, status, payload, checks>>
    /\ UNCHANGED <<service_vars, serve_vars, thread_vars>>

\* what await db.commit() can do: write the session's rows, or raise (the
\* database is gone, the content row was deleted meanwhile)
CommitOutcomes == {"committed", "raised"}

\* mutant: the first row of the session was flushed for good before the
\* commit raised
after_rollback_keeping_flushed(table, pending) ==
    table \o committed(table, SubSeq(pending, 1, 1))

\* get_db, except Exception: await session.rollback() drops the rows that
\* wait in the session; the table is what it was
after_rollback(table, pending) == table

\* the 201 response built from the refreshed rows
response_of(e, saved) ==
    IF e = "image"
    THEN <<image_response(saved[1])>>
    ELSE [i \in 1..Len(saved) |-> response_item(e, saved[i])]

\* await db.commit(): one commit for all rows of the request, then refresh and
\* the 201 response; a commit that raises leaves the handler, get_db rolls
\* the session back and the request ends in 500
Commit ==
    /\ rpc = "Added"
    /\ \E outcome \in CommitOutcomes :
         LET saved == committed(generated_posts, session_new)
         IN IF outcome = "committed"
            THEN /\ status' = 201
                 /\ generated_posts' = generated_posts \o saved
                 /\ payload' = response_of(endpoint, saved)
            ELSE /\ status' = 500
                 /\ generated_posts' = after_rollback(generated_posts, session_new)
                 /\ payload' = payload
    /\ session_new' = <<>>
    /\ rpc' = "Answered"
    /\ UNCHANGED <<endpoint, content_id, request_body, content, generated,
                   service_calls, rows_before, checks>>
    /\ UNCHANGED <<service_vars, serve_vars, thread_vars>>

\* the response is sent; the tables stay, the request is forgotten
Finish ==
    /\ rpc = "Answered"
    /\ rpc' = "Idle"
    /\ endpoint' = "none"
    /\ content_id' = 0
    /\ request_body' = NoRequestBody
    /\ content' = None
    /\ generated' = Returned(<<>>)
    /\ service_calls' = 0
    /\ rows_before' = 0
    /\ status' = 0
    /\ payload' = <<>>
    /\ checks' = <<>>
    /\ generated_post_id' = 0
    /\ post_row' = None
    /\ unhandled' = "none"
    /\ upstream_requests' = <<>>
    /\ UNCHANGED <<generated_posts, environ>>
    /\ UNCHANGED <<service_vars, thread_vars, session_new>>

RouterNext ==
    \/ \E e \in Endpoints, id \in ContentIds :
         \E rbody \in RequestBodies(e) : Request(e, id, rbody)
    \/ FetchContent
    \/ CheckLength
    \/ CallService
    \/ MapFailure
    \/ RejectEmpty
    \/ AddRows
    \/ GenerateImage
    \/ Commit
    \/ Finish

RouterSpec == Init /\ [][RouterNext]_vars

(***************************************************************************)
(* config.py and serve_generated_image: the image proxy route              *)
(* GET /api/generate/image/serve/<generated_post_id>                       *)
(***************************************************************************)
\* class Settings: the declared fields; extra="ignore" drops every other
\* variable of the environment
SettingsFields ==
    {"DATABASE_URL", "GEMINI_API_KEY", "GROQ_API_KEY", "ENVIRONMENT", "DEBUG",
     "LOG_LEVEL"}

\* settings = Settings(): a declared field takes the value of its variable;
\* the empty string stands for the default of a field that has none
Settings(env) ==
    [f \in SettingsFields |-> IF f \in DOMAIN env THEN env[f] ELSE <<>>]

\* obj.name on a pydantic model: a name that is no field raises AttributeError
getattr(obj, name) ==
    IF name \in DOMAIN obj THEN [raised |-> "none", value |-> obj[name]]
    ELSE [raised |-> "AttributeError", value |-> <<>>]

\* the environments a process may be started with: POLLINATIONS_API_KEY
\* unset, set to the empty string, set to a key
Environments ==
    { BareEnvironment } \cup
    { [n \in {"DATABASE_URL", "POLLINATIONS_API_KEY"} |->
         IF n = "DATABASE_URL" THEN BareEnvironment[n] ELSE k] :
        k \in { <<>>, <<Run("k", 1)>> } }

\* the ids a proxy request may name: the stored ones and one that is not
PostIds == 1..(MaxRows + 1)

\* select(GeneratedPost).where(GeneratedPost.id == generated_post_id)
fetch_generated_post(table, id) ==
    IF \E i \in 1..Len(table) : table[i].id = id
    THEN table[CHOOSE i \in 1..Len(table) : table[i].id = id]
    ELSE None

\* (metadata.get("prompt_short") or metadata.get("prompt") or "").strip()
serve_prompt(metadata) ==
    LET prompt_short == IF "prompt_short" \in DOMAIN metadata
                        THEN metadata.prompt_short ELSE <<>>
        prompt == IF "prompt" \in DOMAIN metadata THEN metadata.prompt ELSE <<>>
    IN strip(IF prompt_short # <<>> THEN prompt_short ELSE prompt)

\* the upstream URL the route builds from the stored metadata
serve_upstream_url(metadata) ==
    LET width == IF "width" \in DOMAIN metadata /\ metadata.width # 0
                 THEN metadata.width ELSE 1024
        height == IF "height" \in DOMAIN metadata /\ metadata.height # 0
                  THEN metadata.height ELSE 1024
        model == IF "model" \in DOMAIN metadata /\ metadata.model # ""
                 THEN metadata.model ELSE "flux"
        seed == IF "seed" \in DOMAIN metadata THEN <<metadata.seed>> ELSE <<>>
    IN build_pollinations_image_url(slice_to(serve_prompt(metadata), PROMPT_SHORT_LIMIT),
                                    width, height, model, seed)

\* how client.get(upstream_url) may end: an httpx.HTTPError, a status of 400
\* or more, an image
UpstreamOutcomes == {"HTTPError", "error_status", "image"}

\* a request arrives at the proxy route
ServeRequest(id) ==
    /\ rpc = "Idle"
    /\ rpc' = "ServeReceived"
    /\ endpoint' = "serve"
    /\ generated_post_id' = id
    /\ rows_before' = Len(generated_posts)
    /\ UNCHANGED <<content_id, request_body, content, generated, service_calls,
                   generated_posts, status, payload, checks>>
    /\ UNCHANGED <<environ, post_row, unhandled, upstream_requests>>
    /\ UNCHANGED <<service_vars, thread_vars, session_new>>

\* the row is fetched by its id; 404 if there is none
FetchRow ==
    /\ rpc = "ServeReceived"
    /\ checks' = Append(checks, "exists")
    /\ post_row' = fetch_generated_post(generated_posts, generated_post_id)
    /\ IF fetch_generated_post(generated_posts, generated_post_id) = None
       THEN rpc' = "Answered" /\ status' = 404
       ELSE rpc' = "RowFetched" /\ status' = status
    /\ UNCHANGED <<endpoint, content_id, request_body, content, generated,
                   service_calls, generated_posts, rows_before, payload>>
    /\ UNCHANGED <<environ, generated_post_id, unhandled, upstream_requests>>
    /\ UNCHANGED <<service_vars, thread_vars, session_new>>

\* the prompt is read from the row's metadata; 404 if there is none
ReadPrompt ==
    /\ rpc = "RowFetched"
    /\ checks' = Append(checks, "metadata")
    /\ IF serve_prompt(post_row.post_metadata) = <<>>
       THEN rpc' = "Answered" /\ status' = 404
       ELSE rpc' = "PromptRead" /\ status' = status
    /\ UNCHANGED <<endpoint, content_id, request_body, content, generated,
                   service_calls, generated_posts, rows_before, payload>>
    /\ UNCHANGED serve_vars
    /\ UNCHANGED <<service_vars, thread_vars, session_new>>

\* settings.POLLINATIONS_API_KEY is read: 503 if it is empty; else the
\* upstream URL is built and fetched, 502 on a failure.  An exception that
\* no except clause catches leaves the handler: the server answers 500.
ProxyImage ==
    /\ rpc = "PromptRead"
    /\ checks' = Append(checks, "key")
    /\ LET key == getattr(Settings(environ), "POLLINATIONS_API_KEY")
       IN IF key.raised # "none"
          THEN /\ unhandled' = key.raised
               /\ status' = 500
               /\ upstream_requests' = upstream_requests
          ELSE IF key.value = <<>>
          THEN /\ unhandled' = unhandled
               /\ status' = 503
               /\ upstream_requests' = upstream_requests
          ELSE /\ unhandled' = unhandled
               /\ upstream_requests' =
                    Append(upstream_requests, serve_upstream_url(post_row.post_metadata))
               /\ \E outcome \in UpstreamOutcomes :
                    status' = IF outcome = "image" THEN 200 ELSE 502
    /\ rpc' = "Answered"
    /\ UNCHANGED <<endpoint, content_id, request_body, content, generated,
                   service_calls, generated_posts, rows_before, payload>>
    /\ UNCHANGED <<environ, generated_post_id, post_row>>
    /\ UNCHANGED <<service_vars, thread_vars, session_new>>

\* the image endpoint and one text endpoint fill the table the proxy reads
ServeEndpoints == {"image", "linkedin"}

ServeNext ==
    \/ \E e \in ServeEndpoints, id \in ContentIds :
         \E rbody \in RequestBodies(e) : Request(e, id, rbody)
    \/ FetchContent
    \/ CheckLength
    \/ CallService
    \/ MapFailure
    \/ RejectEmpty
    \/ AddRows
    \/ GenerateImage
    \/ Commit
    \/ \E id \in PostIds : ServeRequest(id)
    \/ FetchRow
    \/ ReadPrompt
    \/ ProxyImage
    \/ Finish

ServeInit == Constructed /\ environ \in Environments

ServeSpec == ServeInit /\ [][ServeNext]_vars

(***************************************************************************)
(* Entry-point calls side by side.  generate_*_from_text keeps everything  *)
(* in local variables; the one module-level object a call touches is       *)
(* client, built once at import and never assigned again.  Each thread     *)
(* takes the steps of one call; the steps of different worker_threads interleave. *)
(* overlapped notes that another call was under way when this one began.   *)
(***************************************************************************)
InFlight(t) == worker_threads[t].pc \notin {"Idle", "Done", "Failed"}

\* the answers behind the calls of the worker_threads: an error and, for every item
\* with a body, the bare document that holds it
InterleavedOutcomes(e) ==
    { AdapterRaises("ConnectionError") }
      \cup { UnfencedAnswer(e, WithKey(e, JList(<<x>>))) :
               x \in { z \in CoreItems(e) : HasBody(e, z) } }

InterleavedTexts == { Blank(3), concat(Blank(1), concat(A(40), Blank(2))) }

InterleavedKeyword(e) == IF e = "seo" THEN <<Run("k", 1)>> ELSE <<>>

\* thread t enters generate_*_from_text
ThreadCall(t, e, text) ==
    /\ worker_threads[t].pc = "Idle"
    /\ worker_threads' = [worker_threads EXCEPT ![t] =
         [IdleThread EXCEPT
            !.pc = IF is_blank(text) THEN "Done" ELSE "PromptBuilt",
            !.entry = e,
            !.content_text = text,
            !.primary_keyword = InterleavedKeyword(e),
            !.overlapped = \E u \in Threads \ {t} : InFlight(u)]]
    /\ UNCHANGED <<service_vars, router_vars, serve_vars, session_new>>

\* the provider call of thread t
ThreadInvokeProvider(t) ==
    /\ worker_threads[t].pc = "PromptBuilt"
    /\ \E outcome \in InterleavedOutcomes(worker_threads[t].entry) :
         worker_threads' = [worker_threads EXCEPT ![t].pc = "ProviderInvoked",
                                    ![t].response = outcome]
    /\ UNCHANGED <<service_vars, router_vars, serve_vars, session_new>>

\* the except clause of thread t
ThreadPropagate(t) ==
    /\ worker_threads[t].pc = "ProviderInvoked"
    /\ worker_threads[t].response.kind = "raise"
    /\ LET r == on_provider_error(worker_threads[t].response.error)
       IN worker_threads' = IF r.raised # "none"
                     THEN [worker_threads EXCEPT ![t].pc = "Failed", ![t].exc = r.raised]
                     ELSE [worker_threads EXCEPT ![t].pc = "Done", ![t].result = r.value]
    /\ UNCHANGED <<service_vars, router_vars, serve_vars, session_new>>

\* thread t takes the dict out of its answer
ThreadExtract(t) ==
    /\ worker_threads[t].pc = "ProviderInvoked"
    /\ worker_threads[t].response.kind = "return"
    /\ LET x == extract(worker_threads[t].entry, worker_threads[t].response)
       IN worker_threads' = IF x.kind = "empty"
                     THEN [worker_threads EXCEPT ![t].pc = "Done", ![t].result = <<>>]
                     ELSE [worker_threads EXCEPT ![t].pc = "Extracted",
                                          ![t].parsed_dict = x.value]
    /\ UNCHANGED <<service_vars, router_vars, serve_vars, session_new>>

\* mutant: the parsed dict is kept in one module-level variable, and the
\* normalizer of thread t runs on whatever dict lies there
ThreadNormalizeSharedDict(t) ==
    /\ worker_threads[t].pc = "Extracted"
    /\ LET u == CHOOSE u \in Threads : worker_threads[u].pc = "Extracted"
           r == normalize(worker_threads[t].entry, worker_threads[u].parsed_dict,
                          worker_threads[t].primary_keyword)
       IN worker_threads' = IF r.raised # "none"
                     THEN [worker_threads EXCEPT ![t].pc = "Failed", ![t].exc = r.raised]
                     ELSE [worker_threads EXCEPT ![t].pc = "Normalized", ![t].result = r.value]
    /\ UNCHANGED <<service_vars, router_vars, serve_vars, session_new>>

\* the normalizer of thread t runs on its parsed dict
ThreadNormalize(t) ==
    /\ worker_threads[t].pc = "Extracted"
    /\ LET r == normalize(worker_threads[t].entry, worker_threads[t].parsed_dict,
                          worker_threads[t].primary_keyword)
       IN worker_threads' = IF r.raised # "none"
                     THEN [worker_threads EXCEPT ![t].pc = "Failed", ![t].exc = r.raised]
                     ELSE [worker_threads EXCEPT ![t].pc = "Normalized", ![t].result = r.value]
    /\ UNCHANGED <<service_vars, router_vars, serve_vars, session_new>>

\* thread t returns its list
ThreadReturn(t) ==
    /\ worker_threads[t].pc = "Normalized"
    /\ worker_threads' = [worker_threads EXCEPT ![t].pc = "Done"]
    /\ UNCHANGED <<service_vars, router_vars, serve_vars, session_new>>

\* the call of thread t is over
ThreadReset(t) ==
    /\ worker_threads[t].pc \in {"Done", "Failed"}
    /\ worker_threads' = [worker_threads EXCEPT ![t] = IdleThread]
    /\ UNCHANGED <<service_vars, router_vars, serve_vars, session_new>>

ThreadsNext ==
    \E t \in Threads :
      \/ \E e \in Entries, text \in InterleavedTexts : ThreadCall(t, e, text)
      \/ ThreadInvokeProvider(t)
      \/ ThreadPropagate(t)
      \/ ThreadExtract(t)
      \/ ThreadNormalize(t)
      \/ ThreadReturn(t)
      \/ ThreadReset(t)

ThreadsSpec == Init /\ [][ThreadsNext]_vars

\* the handler has fetched a content row
ContentFound == rpc \notin {"Idle", "Received"} /\ content # None

\* the rows this request has added to generated_posts
NewRows == SubSeq(generated_posts, rows_before + 1, Len(generated_posts))

\* C16: on every generate endpoint (linkedin, twitter, instagram, seo,
\* image), a stored content whose trimmed text has fewer than 20 characters
\* is answered with 400, and the generation service is never called.
C16_ShortContentIs400WithoutService ==
    (ContentFound /\ len(strip(content.original_text)) < 20)
      => /\ service_calls = 0
         /\ NewRows = <<>>
         /\ rpc \in {"Fetched", "Answered"}
         /\ rpc = "Answered" => status = 400

\* the image endpoint answered 400 for a text of 22 characters of which 19
\* are left after trimming
C16_Witness ==
    /\ rpc = "Answered"
    /\ endpoint = "image"
    /\ ContentFound
    /\ len(content.original_text) >= 20
    /\ len(strip(content.original_text)) = 19
    /\ status = 400
    /\ service_calls = 0

\* C17: on the linkedin, twitter, instagram and seo endpoints, when the
\* content exists and is long enough and the generation service raises any
\* exception, the answer is 502, never 500 or 201.
C17_ServiceFailureIs502 ==
    (rpc = "Answered" /\ endpoint \in TextEndpoints /\ service_calls = 1
       /\ generated.raised # "none")
      => /\ status = 502
         /\ NewRows = <<>>
         /\ payload = <<>>

\* the provider's ConnectionError came through the SEO service and was
\* answered with 502
C17_Witness ==
    /\ rpc = "Answered"
    /\ endpoint = "seo"
    /\ service_calls = 1
    /\ generated.raised = "ConnectionError"
    /\ status = 502

\* an item of the service's list that passes the handler's own body check;
\* the Instagram handler has none
Survives(e, item) ==
    CASE e = "linkedin"  -> strip(item.body) # <<>>
      [] e = "twitter"   -> \E i \in 1..Len(item.tweets) : strip(item.tweets[i]) # <<>>
      [] e = "seo"       -> strip(item.description) # <<>>
      [] e = "instagram" -> TRUE

SurvivesNow(item) == Survives(endpoint, item)

SurvivingItems == SelectSeq(generated.value, SurvivesNow)

\* C18: on the linkedin, twitter, instagram and seo endpoints, when the
\* content exists and is long enough and the generation service returns
\* the empty list, or a list of which no item passes the handler's own body
\* check, the answer is 500, never 502 or 201.
C18_NoUsableOutputIs500 ==
    (rpc = "Answered" /\ endpoint \in TextEndpoints /\ service_calls = 1
       /\ generated.raised = "none" /\ SurvivingItems = <<>>)
      => /\ status = 500
         /\ NewRows = <<>>
         /\ payload = <<>>

\* the LinkedIn service returned items, none with a body, and the answer
\* was 500
C18_Witness ==
    /\ rpc = "Answered"
    /\ endpoint = "linkedin"
    /\ service_calls = 1
    /\ generated.raised = "none"
    /\ generated.value # <<>>
    /\ SurvivingItems = <<>>
    /\ status = 500

StoredIds == { ContentTable[i].id : i \in 1..Len(ContentTable) }

\* C19: on every generate endpoint a request for a content id that is not
\* stored is answered with 404; the existence check comes before the length
\* check and before the service call, and the service is not called.
C19_MissingContentIs404BeforeAnythingElse ==
    /\ (rpc \notin {"Idle", "Received"} /\ content_id \notin StoredIds)
         => /\ rpc = "Answered"
            /\ status = 404
            /\ checks = <<"exists">>
            /\ service_calls = 0
            /\ NewRows = <<>>
    /\ checks \in {<<>>, <<"exists">>, <<"exists", "length">>}
    /\ service_calls > 0 => checks = <<"exists", "length">>

\* the image endpoint answered 404 for an id that is not stored
C19_Witness ==
    /\ rpc = "Answered"
    /\ endpoint = "image"
    /\ content_id \notin StoredIds
    /\ status = 404
    /\ checks = <<"exists">>

\* the body of an item of the service's list, as a value
BodyValue(e, item) ==
    CASE e = "linkedin"  -> JStr(item.body)
      [] e = "twitter"   -> JList(item.tweets)
      [] e = "seo"       -> JStr(item.description)
      [] e = "instagram" -> JStr(item.text)

\* the text a handler stores for an item: the trimmed body, or the
\* non-blank tweets joined by blank lines
StoredText(e, item) ==
    CASE e = "linkedin"  -> strip(item.body)
      [] e = "twitter"   -> join(SelectSeq(item.tweets, NotBlank))
      [] e = "seo"       -> strip(item.description)
      [] e = "instagram" -> item.text

\* one response item and one new row per surviving item, in the service's
\* order, the rows of this content and with ids of their own
OneRowPerItem ==
    /\ Len(payload) = Len(SurvivingItems)
    /\ Len(NewRows) = Len(SurvivingItems)
    /\ \A i \in 1..Len(NewRows) :
         /\ payload[i].id = NewRows[i].id
         /\ NewRows[i].content_id = content_id
         /\ NewRows[i].platform = endpoint
         /\ \A j \in 1..Len(generated_posts) :
              generated_posts[j].id = NewRows[i].id => j = rows_before + i

Succeeded == rpc = "Answered" /\ endpoint \in TextEndpoints /\ status = 201

ImageSpecStored == rpc = "Answered" /\ endpoint = "image" /\ status = 201

\* a is the beginning of b: the runs of a are those of b, the last one
\* possibly shorter
IsPrefixOf(a, b) ==
    \/ a = <<>>
    \/ /\ Len(a) <= Len(b)
       /\ \A j \in 1..(Len(a) - 1) : a[j] = b[j]
       /\ a[Len(a)].c = b[Len(a)].c
       /\ a[Len(a)].n <= b[Len(a)].n

Text1080x1080 == <<Run("1", 1), Run("0", 1), Run("8", 1), Run("0", 1), Run(":", 1),
                   Run("1", 1), Run("0", 1), Run("8", 1), Run("0", 1)>>

Text1200x630 == <<Run("1", 1), Run("2", 1), Run("0", 2), Run(":", 1),
                  Run("6", 1), Run("3", 1), Run("0", 1)>>

\* C21: the image spec of requested type "instagram" has width 1080, height
\* 1080 and type "image_instagram"; of any other requested type ("cover")
\* width 1200, height 630 and type "image_cover"; in every spec prompt_short
\* is the first 250 characters of prompt and aspect_ratio is "width:height".
C21_ImageSpecFollowsTheRequestedType ==
    ImageSpecStored =>
      LET spec == NewRows[1].post_metadata
      IN /\ request_body.type = "instagram" =>
              /\ spec.width = 1080 /\ spec.height = 1080
              /\ spec.type = "image_instagram"
              /\ spec.aspect_ratio = Text1080x1080
         /\ request_body.type # "instagram" =>
              /\ spec.width = 1200 /\ spec.height = 630
              /\ spec.type = "image_cover"
              /\ spec.aspect_ratio = Text1200x630
         /\ IsPrefixOf(spec.prompt_short, spec.prompt)
         /\ len(spec.prompt_short) =
              (IF len(spec.prompt) < 250 THEN len(spec.prompt) ELSE 250)

\* a cover image whose prompt is longer than 250 characters was stored
C21_Witness ==
    /\ ImageSpecStored
    /\ request_body.type = "cover"
    /\ len(NewRows[1].post_metadata.prompt) > 250
    /\ len(NewRows[1].post_metadata.prompt_short) = 250

(***************************************************************************)
(* The image proxy route                                                   *)
(***************************************************************************)
\* the proxy route has answered
ServeAnswered == rpc = "Answered" /\ endpoint = "serve"

\* no GeneratedPost has the id of the request
RowMissing == \A i \in 1..Len(generated_posts) : generated_posts[i].id # generated_post_id

\* the row of the request holds a prompt that is not blank
UsablePrompt ==
    \E i \in 1..Len(generated_posts) :
      /\ generated_posts[i].id = generated_post_id
      /\ "prompt_short" \in DOMAIN generated_posts[i].post_metadata
      /\ ~WhitespaceOnly(generated_posts[i].post_metadata.prompt_short)

\* POLLINATIONS_API_KEY is unset or empty in the environment
KeyNotConfigured ==
    \/ "POLLINATIONS_API_KEY" \notin DOMAIN environ
    \/ environ["POLLINATIONS_API_KEY"] = <<>>

\* C22: the image proxy route answers 404 when the generated-post row does
\* not exist, and 503 when the row exists with a usable prompt but the
\* Pollinations API key is not configured (empty or unset); in neither case
\* is an upstream request made.
C22_MissingRowIs404AndMissingKeyIs503 ==
    ServeAnswered =>
      /\ RowMissing => (status = 404 /\ upstream_requests = <<>>)
      /\ (UsablePrompt /\ KeyNotConfigured) =>
           (status = 503 /\ upstream_requests = <<>>)

\* what the route does instead: a missing row is a 404, and for a row with a
\* prompt the read of settings.POLLINATIONS_API_KEY raises AttributeError,
\* whatever the environment holds, before any upstream request
C22_MissingRowIs404AndTheKeyIsNeverRead ==
    ServeAnswered =>
      /\ upstream_requests = <<>>
      /\ RowMissing => status = 404
      /\ UsablePrompt => (status = 500 /\ unhandled = "AttributeError")

(***************************************************************************)
(* One provider call per invocation                                        *)
(***************************************************************************)
\* C23: each entry-point invocation issues at most one upstream provider
\* call, and exactly one when the source text is non-blank: there is no
\* retry after a failure, an empty response or unparsable output.
C23_OneProviderCallPerInvocation ==
    /\ calls <= 1
    /\ (Terminal /\ ~WhitespaceOnly(content_text)) => calls = 1
    /\ (Terminal /\ WhitespaceOnly(content_text)) => calls = 0

\* an invocation on a non-blank text has ended with [] after one call whose
\* answer held nothing usable
C23_Witness ==
    /\ pc = "Done"
    /\ ~WhitespaceOnly(content_text)
    /\ calls = 1
    /\ response.kind = "return"
    /\ parsed_dict = None
    /\ result = <<>>

(***************************************************************************)
(* Structured value before text                                            *)
(***************************************************************************)
\* the answer of a Gemini entry point is at hand and extraction is over
GeminiExtracted ==
    /\ entry \in {"linkedin", "instagram"}
    /\ response.kind = "return"
    /\ pc \in {"Extracted", "Normalized", "Done", "Failed"}

\* C24: in schema-preferred mode (LinkedIn and Instagram), when the provider
\* response carries a structured (parsed) value, the result is the
\* normalizer applied to that value and the response text is never
\* JSON-parsed; the text-extraction path runs only when no structured value
\* is present.
C24_StructuredValueWinsOverText ==
    GeminiExtracted =>
      /\ response.parsed # None =>
           /\ parsed_dict = response.parsed
           /\ pc # "Extracted" =>
                Outcome = normalize(entry, response.parsed, primary_keyword)
      /\ (response.parsed = None /\ parsed_dict # None) =>
           /\ response.text # None
           /\ parsed_dict \in DocsIn(response.text.v)

\* a call has returned the one item of the structured value although the
\* text of the same answer holds a document of two items
C24_Witness ==
    /\ GeminiExtracted
    /\ pc = "Done"
    /\ response.parsed # None
    /\ response.text # None
    /\ \E d \in DocsIn(response.text.v) : d # response.parsed /\ isinstance(d, "obj")
    /\ Len(result) = 1

(***************************************************************************)
(* Calls side by side                                                      *)
(***************************************************************************)
\* what the finished call of thread t handed back
ThreadOutcome(t) ==
    IF worker_threads[t].pc = "Failed" THEN Raised(worker_threads[t].exc)
    ELSE Returned(worker_threads[t].result)

\* C26: concurrent pipeline invocations are safe: for any interleaving of two
\* or more entry-point calls, each call's result equals the result it would
\* produce if run alone on the same provider response, because no call reads
\* or writes state written by another call.
C26_InterleavedCallsReturnWhatTheyReturnAlone ==
    \A t \in Threads :
      worker_threads[t].pc \in {"Done", "Failed"} =>
        ThreadOutcome(t) = text_service(worker_threads[t].entry,
                                        worker_threads[t].content_text,
                                        worker_threads[t].primary_keyword,
                                        worker_threads[t].response)

\* two calls that overlapped have both returned, with different lists
C26_Witness ==
    \E t, u \in Threads :
      /\ t # u
      /\ worker_threads[t].pc = "Done" /\ worker_threads[u].pc = "Done"
      /\ worker_threads[t].overlapped
      /\ worker_threads[t].result # <<>> /\ worker_threads[u].result # <<>>
      /\ worker_threads[t].result # worker_threads[u].result

(***************************************************************************)
(* The legacy content key; no cap for LinkedIn and Twitter                 *)
(***************************************************************************)
\* the LinkedIn or the Twitter normalizer has returned for a list
UncappedNormalizerReturned ==
    /\ entry \in {"linkedin", "twitter"}
    /\ pc = "Normalized"
    /\ isinstance(get(parsed_dict, TopKey(entry)), "list")

\* body or content of the item yields a non-empty trimmed string
BodyOrContent(item) ==
    /\ isinstance(item, "obj")
    /\ NonBlankValue(get(item, "body")) \/ NonBlankValue(get(item, "content"))

\* the value the normalizer takes for the body: content when body is absent
\* or null, body otherwise
ChosenBody(item) ==
    IF "body" \notin DOMAIN item.v \/ item.v["body"].t = "null"
    THEN get(item, "content")
    ELSE item.v["body"]

KeepsChosenBody(item) == isinstance(item, "obj") /\ NonBlankValue(ChosenBody(item))

\* C27 as stated: in the LinkedIn normalizer the legacy content key is used
\* as the body when body is absent; an item is dropped only if neither body
\* nor content yields a non-empty trimmed string; and the LinkedIn and
\* Twitter normalizers emit every valid item, with no cap on their number.
C27_DroppedOnlyIfNeitherBodyNorContent ==
    UncappedNormalizerReturned =>
      /\ Len(result) = Len(IF entry = "linkedin"
                           THEN SelectSeq(InputItems, BodyOrContent)
                           ELSE ValidItems)
      /\ entry = "linkedin" =>
           \A i \in 1..Len(InputItems) :
             (isinstance(InputItems[i], "obj") /\ "body" \notin DOMAIN InputItems[i].v
                /\ NonBlankValue(get(InputItems[i], "content")))
               => \E k \in 1..Len(result) :
                    result[k].body = TrimmedValue(get(InputItems[i], "content"))

\* C27 amended: content stands in only for a body that is absent or null; a
\* body that is present decides alone, so that an item is dropped when the
\* value so chosen yields no non-empty trimmed string; no cap on the number
\* of posts or threads.
C27_ContentStandsInOnlyForAMissingBody ==
    UncappedNormalizerReturned =>
      /\ Len(result) = Len(IF entry = "linkedin"
                           THEN SelectSeq(InputItems, KeepsChosenBody)
                           ELSE ValidItems)
      /\ entry = "linkedin" =>
           \A k \in 1..Len(result) :
             result[k].body =
               TrimmedValue(ChosenBody(SelectSeq(InputItems, KeepsChosenBody)[k]))

\* one item came out with its content as the body, while its sibling with
\* an empty body and a content was dropped
C27_Witness ==
    /\ UncappedNormalizerReturned
    /\ entry = "linkedin"
    /\ InputItems = <<JObj([content |-> Padded("c")]),
                      JObj([body |-> EmptyStr, content |-> S1("c")])>>
    /\ Len(result) = 1
    /\ result[1].body = <<Run("c", 1)>>

(***************************************************************************)
(* The upstream URL, stored and rebuilt                                    *)
(***************************************************************************)
\* the rows the image endpoint has persisted
ImageRows ==
    { i \in 1..Len(generated_posts) :
        "upstream_url" \in DOMAIN generated_posts[i].post_metadata }

\* C28: for every image spec produced by generate_image_spec_for_content and
\* persisted by the image endpoint, the upstream URL that the proxy route
\* rebuilds from the stored metadata (prompt_short, width, height, model,
\* seed) is identical to the spec's stored upstream_url.
C28_RebuiltUrlIsTheStoredUrl ==
    \A i \in ImageRows :
      serve_upstream_url(generated_posts[i].post_metadata)
        = generated_posts[i].post_metadata.upstream_url

\* the two URLs agree whenever the stored prompt_short ends in no whitespace
C28_HoldsWhenThePromptEndsInNoBlank ==
    \A i \in ImageRows :
      LET md == generated_posts[i].post_metadata
      IN ~isspace(md.prompt_short[Len(md.prompt_short)].c)
           => serve_upstream_url(md) = md.upstream_url
(***************************************************************************)
(* C29                                                                     *)
(***************************************************************************)

\* the rows the request of the state has to store
RequestBatch ==
    IF endpoint = "image"
    THEN session_new
    ELSE rows_of(endpoint, generated.value, content.id, request_body)

\* a step that changes the stored rows
TableChanges == generated_posts' # generated_posts

\* the step appends every waiting row of the request, and nothing else, and
\* ends the request in 201
WholeBatchWith201 ==
    /\ rpc' = "Answered"
    /\ status' = 201
    /\ session_new = RequestBatch
    /\ Len(generated_posts') = Len(generated_posts) + Len(RequestBatch)
    /\ SubSeq(generated_posts', 1, Len(generated_posts)) = generated_posts

\* the request was answered with 404, 400, 502 or 500
AnsweredWithout201 ==
    rpc = "Answered" /\ endpoint \in Endpoints /\ status # 201

IdsPairwiseDistinct(batch) ==
    \A i \in 1..Len(batch) : \A j \in 1..Len(batch) :
      i # j => batch[i].id # batch[j].id

\* C30: in every batch the Instagram or the SEO normalizer returns, no two
\* variants carry the same id, whether the provider supplied the ids, the
\* normalizer assigned them, or both, and whichever items were dropped.
C30_EmittedIdsArePairwiseDistinct ==
    (Capped(entry) /\ NormalizerReturnedList) => IdsPairwiseDistinct(result)

\* the ids of the SEO normalizer, which reads no id of the provider, and
\* those of an Instagram batch whose items supplied none, are pairwise
\* distinct
C30_AssignedIdsArePairwiseDistinct ==
    (Capped(entry) /\ NormalizerReturnedList
       /\ \A i \in 1..Len(result) : ~IdSupplied(ValidItems[i]))
      => IdsPairwiseDistinct(result)

====
